---- MODULE Spec2Model ----
(***************************************************************************)
(* A model of the Melbourne cinema scraper (src/src/scraper.js, the        *)
(* multi-day script of lines 1-1061): the time normaliser, the title       *)
(* canonicaliser and cached metadata lookup (fetchTMDB), the per-venue     *)
(* extractors, the enrichment loop (enrichWithTMDB) and the day/venue      *)
(* orchestrator (main).                                                    *)
(*                                                                         *)
(* A JavaScript string is a sequence of one-character strings; the en dash *)
(* and the em dash, which the canonicaliser's patterns name, are written   *)
(* "&ndash;" and "&mdash;".                                                *)
(***************************************************************************)
EXTENDS Integers, Sequences, FiniteSets, TLC

(***************************************************************************)
(* Characters and the regular-expression building blocks                   *)
(***************************************************************************)

LowerCaseLetters ==
  <<"a","b","c","d","e","f","g","h","i","j","k","l","m",
    "n","o","p","q","r","s","t","u","v","w","x","y","z">>

UpperCaseLetters ==
  <<"A","B","C","D","E","F","G","H","I","J","K","L","M",
    "N","O","P","Q","R","S","T","U","V","W","X","Y","Z">>

DigitChars == <<"0","1","2","3","4","5","6","7","8","9">>

\* [-–—] of the canonicaliser's patterns
Dashes == {"-", "&ndash;", "&mdash;"}

IsUpper(c) == \E i \in 1..26 : UpperCaseLetters[i] = c

IsLower(c) == \E i \in 1..26 : LowerCaseLetters[i] = c

\* \d
IsDigit(c) == \E i \in 1..10 : DigitChars[i] = c

\* \s
IsSpace(c) == c = " "

\* \w
IsWordChar(c) == IsUpper(c) \/ IsLower(c) \/ IsDigit(c) \/ c = "_"

DigitVal(c) == (CHOOSE i \in 1..10 : DigitChars[i] = c) - 1

toLowerCaseChar(c) ==
  IF IsUpper(c) THEN LowerCaseLetters[CHOOSE i \in 1..26 : UpperCaseLetters[i] = c]
  ELSE c

\* String.prototype.toLowerCase
toLowerCase(s) == [i \in 1..Len(s) |-> toLowerCaseChar(s[i])]

\* the first index >= i that holds no whitespace (Len(s)+1 when there is none): \s*
SkipSpaces(s, i) ==
  IF \E j \in i..Len(s) : ~IsSpace(s[j])
  THEN CHOOSE j \in i..Len(s) : ~IsSpace(s[j]) /\ \A k \in i..(j-1) : IsSpace(s[k])
  ELSE IF i > Len(s) THEN i ELSE Len(s) + 1

\* the first index >= i that holds no digit: \d*
SkipDigits(s, i) ==
  IF \E j \in i..Len(s) : ~IsDigit(s[j])
  THEN CHOOSE j \in i..Len(s) : ~IsDigit(s[j]) /\ \A k \in i..(j-1) : IsDigit(s[k])
  ELSE IF i > Len(s) THEN i ELSE Len(s) + 1

\* the lower-case literal lit stands at index i of s, letter case ignored (flag i)
MatchesAt(s, i, lit) ==
  /\ i >= 1
  /\ i + Len(lit) - 1 <= Len(s)
  /\ \A k \in 1..Len(lit) : toLowerCaseChar(s[i + k - 1]) = lit[k]

\* s contains the lower-case literal lit, letter case ignored
Includes(s, lit) == \E i \in 1..(Len(s) + 1) : MatchesAt(s, i, lit)

\* String.prototype.trim
trim(s) ==
  IF \A i \in 1..Len(s) : IsSpace(s[i]) THEN <<>>
  ELSE LET a == CHOOSE i \in 1..Len(s) : ~IsSpace(s[i]) /\ \A k \in 1..(i-1) : IsSpace(s[k])
           b == CHOOSE i \in 1..Len(s) : ~IsSpace(s[i]) /\ \A k \in (i+1)..Len(s) : IsSpace(s[k])
       IN SubSeq(s, a, b)

\* the decimal digits of a natural number: Number.prototype.toString
RECURSIVE NumToChars(_)
NumToChars(n) ==
  IF n < 10 THEN <<DigitChars[n + 1]>>
  ELSE NumToChars(n \div 10) \o <<DigitChars[(n % 10) + 1]>>

\* the number the first n characters of str, all digits, spell
RECURSIVE DigitsValue(_, _)
DigitsValue(str, n) ==
  IF n = 0 THEN 0 ELSE 10 * DigitsValue(str, n - 1) + DigitVal(str[n])

\* String.prototype.padStart(2, '0')
padStart2(s) == IF Len(s) < 2 THEN <<"0">> \o s ELSE s

(***************************************************************************)
(* standardiseTime                                                         *)
(***************************************************************************)

SeeWebsiteLower == <<"s","e","e"," ","w","e","b","s","i","t","e">>

\* the ACMI and Astor extractors' sentinel 'See website'
SeeWebsite == <<"S","e","e"," ","w","e","b","s","i","t","e">>

AmPm == {<<"a","m">>, <<"p","m">>}

\* the number of leading digits when the string starts with (\d{1,2}), else 0
HourDigits(s) ==
  LET d == SkipDigits(s, 1) - 1 IN IF d \in {1, 2} THEN d ELSE 0

\* parseInt(x, 10) of a string of one or two digits at i..j
ParseInt(s, i, j) ==
  IF j = i THEN DigitVal(s[i]) ELSE 10 * DigitVal(s[i]) + DigitVal(s[j])

\* /^(\d{1,2}):(\d{2})\s*(am|pm)$/i
Match12(s) ==
  LET d == HourDigits(s)
      j == SkipSpaces(s, d + 4)
  IN /\ d > 0
     /\ Len(s) >= d + 3
     /\ s[d + 1] = ":"
     /\ IsDigit(s[d + 2]) /\ IsDigit(s[d + 3])
     /\ j + 1 = Len(s)
     /\ \E p \in AmPm : MatchesAt(s, j, p)

\* /^(\d{1,2})\s*(am|pm)$/i
Match12NoMins(s) ==
  LET d == HourDigits(s)
      j == SkipSpaces(s, d + 1)
  IN /\ d > 0
     /\ j + 1 = Len(s)
     /\ \E p \in AmPm : MatchesAt(s, j, p)

\* /^(\d{1,2}):(\d{2})$/
Match24(s) ==
  LET d == HourDigits(s)
  IN /\ d > 0
     /\ Len(s) = d + 3
     /\ s[d + 1] = ":"
     /\ IsDigit(s[d + 2]) /\ IsDigit(s[d + 3])

\* standardiseTime when the 24-hour format subtracts twelve from noon as well:
\* "12:05" gives "0:05pm"
standardiseTimeNoonZero(timeStr) ==
  LET d == HourDigits(timeStr)
      hours == ParseInt(timeStr, 1, d)
      mins == ParseInt(timeStr, d + 2, d + 3)
      period == toLowerCase(SubSeq(timeStr, Len(timeStr) - 1, Len(timeStr)))
  IN IF timeStr = <<>> \/ Includes(timeStr, SeeWebsiteLower) THEN timeStr
     ELSE IF Match12(timeStr)
       THEN NumToChars(hours) \o <<":">> \o padStart2(NumToChars(mins)) \o period
     ELSE IF Match12NoMins(timeStr)
       THEN NumToChars(hours) \o <<":", "0", "0">> \o period
     ELSE IF Match24(timeStr)
       THEN LET period24 == IF hours >= 12 THEN <<"p","m">> ELSE <<"a","m">>
                hour12 == IF hours = 0 THEN 12 ELSE IF hours >= 12 THEN hours - 12 ELSE hours
            IN NumToChars(hour12) \o <<":">> \o padStart2(NumToChars(mins)) \o period24
     ELSE timeStr

\* standardiseTime when the format without minutes loses its meridiem: "9pm"
\* gives "9:00"
standardiseTimeNoMeridiem(timeStr) ==
  LET d == HourDigits(timeStr)
      hours == ParseInt(timeStr, 1, d)
      mins == ParseInt(timeStr, d + 2, d + 3)
      period == toLowerCase(SubSeq(timeStr, Len(timeStr) - 1, Len(timeStr)))
  IN IF timeStr = <<>> \/ Includes(timeStr, SeeWebsiteLower) THEN timeStr
     ELSE IF Match12(timeStr)
       THEN NumToChars(hours) \o <<":">> \o padStart2(NumToChars(mins)) \o period
     ELSE IF Match12NoMins(timeStr)
       THEN NumToChars(hours) \o <<":", "0", "0">>
     ELSE IF Match24(timeStr)
       THEN LET period24 == IF hours >= 12 THEN <<"p","m">> ELSE <<"a","m">>
                hour12 == IF hours = 0 THEN 12 ELSE IF hours > 12 THEN hours - 12 ELSE hours
            IN NumToChars(hour12) \o <<":">> \o padStart2(NumToChars(mins)) \o period24
     ELSE timeStr

standardiseTime(timeStr) ==
  LET d == HourDigits(timeStr)
      hours == ParseInt(timeStr, 1, d)
      mins == ParseInt(timeStr, d + 2, d + 3)
      period == toLowerCase(SubSeq(timeStr, Len(timeStr) - 1, Len(timeStr)))
  IN IF timeStr = <<>> \/ Includes(timeStr, SeeWebsiteLower) THEN timeStr
     ELSE IF Match12(timeStr)
       THEN NumToChars(hours) \o <<":">> \o padStart2(NumToChars(mins)) \o period
     ELSE IF Match12NoMins(timeStr)
       THEN NumToChars(hours) \o <<":", "0", "0">> \o period
     ELSE IF Match24(timeStr)
       THEN LET period24 == IF hours >= 12 THEN <<"p","m">> ELSE <<"a","m">>
                hour12 == IF hours = 0 THEN 12 ELSE IF hours > 12 THEN hours - 12 ELSE hours
            IN NumToChars(hour12) \o <<":">> \o padStart2(NumToChars(mins)) \o period24
     ELSE timeStr

(***************************************************************************)
(* fetchTMDB: the cache key and the title canonicaliser                    *)
(***************************************************************************)

\* the smallest index of 1..Len(s) at which P holds, 0 when there is none:
\* where the leftmost match of a pattern starts
FirstIndex(s, P(_)) ==
  IF \E i \in 1..Len(s) : P(i)
  THEN CHOOSE i \in 1..Len(s) : P(i) /\ \A k \in 1..(i-1) : ~P(k)
  ELSE 0

\* s.replace(/<pattern>.*$/, '') for a pattern whose leftmost match starts where P holds
CutAt(s, P(_)) ==
  LET i == FirstIndex(s, P) IN IF i = 0 THEN s ELSE SubSeq(s, 1, i - 1)

FormatTags ==
  { <<"3","d">>, <<"i","m","a","x">>, <<"4","k">>, <<"2","k">>, <<"2","d">>,
    <<"h","f","r">>, <<"h","d","r">>, <<"d","o","l","b","y">>, <<"a","t","m","o","s">> }

\* the length of the match of /\b(3D|IMAX|4K|2K|2D|HFR|HDR|Dolby|Atmos)\b/i at i, else 0
FormatTagAt(s, i) ==
  LET hits == { t \in FormatTags :
                  /\ MatchesAt(s, i, t)
                  /\ (i = 1 \/ ~IsWordChar(s[i - 1]))
                  /\ (i + Len(t) > Len(s) \/ ~IsWordChar(s[i + Len(t)])) }
  IN IF hits = {} THEN 0 ELSE Len(CHOOSE t \in hits : TRUE)

RECURSIVE stripFormatTagsFrom(_, _)
stripFormatTagsFrom(s, i) ==
  IF i > Len(s) THEN <<>>
  ELSE IF FormatTagAt(s, i) > 0 THEN stripFormatTagsFrom(s, i + FormatTagAt(s, i))
  ELSE <<s[i]>> \o stripFormatTagsFrom(s, i + 1)

\* .replace(/\b(3D|IMAX|4K|2K|2D|HFR|HDR|Dolby|Atmos)\b/gi, '')
stripFormatTags(s) == stripFormatTagsFrom(s, 1)

LanguageWords ==
  { <<"s","u","b">>, <<"d","u","b">>, <<"e","n","g">>, <<"h","i","n","d","i">>,
    <<"t","e","l","u","g","u">>, <<"t","a","m","i","l">>,
    <<"m","a","l","a","y","a","l","a","m">>, <<"k","a","n","n","a","d","a">>,
    <<"k","o","r","e","a","n">>, <<"j","a","p","a","n","e","s","e">>,
    <<"m","a","n","d","a","r","i","n">>, <<"c","a","n","t","o","n","e","s","e">>,
    <<"s","p","a","n","i","s","h">>, <<"f","r","e","n","c","h">>,
    <<"g","e","r","m","a","n">>, <<"i","t","a","l","i","a","n">> }

\* [\w\s,'-]
IsAnnotationChar(c) == IsWordChar(c) \/ IsSpace(c) \/ c \in {",", "'", "-"}

\* the index of the ")" that closes a language annotation opened at i, else 0
LanguageParenEnd(s, i) ==
  IF i > Len(s) \/ s[i] # "(" THEN 0
  ELSE IF ~\E j \in (i+1)..Len(s) : ~IsAnnotationChar(s[j]) THEN 0
  ELSE LET j == CHOOSE j \in (i+1)..Len(s) :
                  ~IsAnnotationChar(s[j]) /\ \A k \in (i+1)..(j-1) : IsAnnotationChar(s[k])
       IN IF s[j] = ")" /\ \E w \in LanguageWords : Includes(SubSeq(s, i + 1, j - 1), w)
          THEN j ELSE 0

RECURSIVE stripLanguageFrom(_, _)
stripLanguageFrom(s, i) ==
  IF i > Len(s) THEN <<>>
  ELSE IF LanguageParenEnd(s, i) > 0 THEN stripLanguageFrom(s, LanguageParenEnd(s, i) + 1)
  ELSE <<s[i]>> \o stripLanguageFrom(s, i + 1)

\* .replace(/\([\w\s,'-]*(sub(titled|titles|s)?|dub(bed)?|eng|hindi|...)[\w\s,'-]*\)/gi, '')
stripLanguage(s) == stripLanguageFrom(s, 1)

OrdinalSuffixes == { <<"s","t">>, <<"n","d">>, <<"r","d">>, <<"t","h">> }

Anniversary == <<"a","n","n","i","v","e","r","s","a","r","y">>

\* /[-–—]\s*\d+\s*(st|nd|rd|th)?\s*anniversary/i matches at i
AnniversaryAt(s, i) ==
  LET j1 == SkipSpaces(s, i + 1)
      j2 == SkipDigits(s, j1)
      j3 == SkipSpaces(s, j2)
      j4 == IF \E x \in OrdinalSuffixes : MatchesAt(s, j3, x) THEN j3 + 2 ELSE j3
      j5 == SkipSpaces(s, j4)
  IN /\ s[i] \in Dashes
     /\ j2 > j1
     /\ MatchesAt(s, j5, Anniversary)

\* .replace(/[-–—]\s*\d+\s*(st|nd|rd|th)?\s*anniversary.*$/i, '')
stripAnniversary(s) == CutAt(s, LAMBDA i : AnniversaryAt(s, i))

\* (restoration|remaster(ed)?|re-?release)
RestorationWords ==
  { <<"r","e","s","t","o","r","a","t","i","o","n">>, <<"r","e","m","a","s","t","e","r">>,
    <<"r","e","r","e","l","e","a","s","e">>, <<"r","e","-","r","e","l","e","a","s","e">> }

RestorationWordAt(s, i) == \E w \in RestorationWords : MatchesAt(s, i, w)

\* (digital\s*)?(restoration|...) matches at i
DigitalRestorationAt(s, i) ==
  \/ RestorationWordAt(s, i)
  \/ /\ MatchesAt(s, i, <<"d","i","g","i","t","a","l">>)
     /\ RestorationWordAt(s, SkipSpaces(s, i + 7))

\* (\d+K\s*)?(digital\s*)?(restoration|...) matches at i
ResolutionRestorationAt(s, i) ==
  \/ DigitalRestorationAt(s, i)
  \/ LET j == SkipDigits(s, i)
     IN /\ j > i
        /\ MatchesAt(s, j, <<"k">>)
        /\ DigitalRestorationAt(s, SkipSpaces(s, j + 1))

\* /[-–—]?\s*(\d+K\s*)?(digital\s*)?(restoration|remaster(ed)?|re-?release)/i matches at i
RestorationAt(s, i) ==
  \/ ResolutionRestorationAt(s, SkipSpaces(s, i))
  \/ s[i] \in Dashes /\ ResolutionRestorationAt(s, SkipSpaces(s, i + 1))

\* .replace(/[-–—]?\s*(\d+K\s*)?(digital\s*)?(restoration|remaster(ed)?|re-?release).*$/i, '')
stripRestoration(s) == CutAt(s, LAMBDA i : RestorationAt(s, i))

SpecialWords ==
  { <<"p","r","e","v","i","e","w">>, <<"s","p","e","c","i","a","l">>,
    <<"e","n","c","o","r","e">>, <<"s","c","r","e","e","n","i","n","g">>,
    <<"e","v","e","n","t">>, <<"l","i","m","i","t","e","d">> }

\* .replace(/[-–—]\s*(preview|special|encore|screening|event|limited).*$/i, '')
stripSpecial(s) ==
  CutAt(s, LAMBDA i : /\ s[i] \in Dashes
                      /\ \E w \in SpecialWords : MatchesAt(s, SkipSpaces(s, i + 1), w))

BroadcastBrands ==
  { <<"n","t"," ","l","i","v","e">>, <<"m","e","t"," ","o","p","e","r","a">>,
    <<"n","a","t","i","o","n","a","l"," ","t","h","e","a","t","r","e"," ","l","i","v","e">> }

\* .replace(/\s*[-:]\s*(NT Live|Met Opera|National Theatre Live).*$/i, '')
stripBroadcast(s) ==
  CutAt(s, LAMBDA i :
    LET j == SkipSpaces(s, i)
    IN /\ j <= Len(s)
       /\ s[j] \in {"-", ":"}
       /\ \E w \in BroadcastBrands : MatchesAt(s, SkipSpaces(s, j + 1), w))

RetroWords ==
  { <<"r","e","t","r","o"," ","c","l","a","s","s","i","x">>,
    <<"c","l","a","s","s","i","c">>, <<"r","e","t","r","o">> }

\* .replace(/\s*[-–—]\s*(RETRO CLASSIX|CLASSIC|RETRO)$/i, '')
stripRetro(s) ==
  CutAt(s, LAMBDA i :
    LET j == SkipSpaces(s, i)
        k == SkipSpaces(s, j + 1)
    IN /\ j <= Len(s)
       /\ s[j] \in Dashes
       /\ \E w \in RetroWords : MatchesAt(s, k, w) /\ k + Len(w) - 1 = Len(s))

\* .replace(/\s*\(\d{4}(\s+film)?\)\s*$/i, '')
stripYear(s) ==
  CutAt(s, LAMBDA i :
    LET j == SkipSpaces(s, i)
        f == SkipSpaces(s, j + 5)
    IN /\ j + 5 <= Len(s)
       /\ s[j] = "("
       /\ \A k \in (j+1)..(j+4) : IsDigit(s[k])
       /\ \/ s[j + 5] = ")" /\ SkipSpaces(s, j + 6) = Len(s) + 1
          \/ /\ f > j + 5
             /\ MatchesAt(s, f, <<"f","i","l","m",")">>)
             /\ SkipSpaces(s, f + 5) = Len(s) + 1)

\* .replace(/\s*\[.*?\]\s*$/i, '')
stripBrackets(s) ==
  CutAt(s, LAMBDA i :
    LET j == SkipSpaces(s, i)
    IN /\ j <= Len(s)
       /\ s[j] = "["
       /\ \E k \in (j+1)..Len(s) : s[k] = "]" /\ SkipSpaces(s, k + 1) = Len(s) + 1)

\* /,\s*The$/i matches at i
TrailingTheAt(s, i) ==
  LET j == SkipSpaces(s, i + 1)
  IN s[i] = "," /\ MatchesAt(s, j, <<"t","h","e">>) /\ j + 2 = Len(s)

\* originalTitle.match(/,\s*The$/i)
EndsWithThe(s) == \E i \in 1..Len(s) : TrailingTheAt(s, i)

\* .replace(/,\s*The$/i, '')
stripTrailingThe(s) == CutAt(s, LAMBDA i : TrailingTheAt(s, i))

RECURSIVE collapseFrom(_, _)
collapseFrom(s, i) ==
  IF i > Len(s) THEN <<>>
  ELSE IF IsSpace(s[i]) THEN <<" ">> \o collapseFrom(s, SkipSpaces(s, i))
  ELSE <<s[i]>> \o collapseFrom(s, i + 1)

\* .replace(/\s+/g, ' ')
collapseWhitespace(s) == collapseFrom(s, 1)

\* .replace(/[-–—:]\s*$/g, '')
stripTrailingPunctuation(s) ==
  CutAt(s, LAMBDA i : s[i] \in Dashes \cup {":"} /\ SkipSpaces(s, i + 1) = Len(s) + 1)

\* the search query fetchTMDB builds from a raw title
cleanTitle(title) ==
  (IF EndsWithThe(title) THEN <<"T","h","e"," ">> ELSE <<>>)
    \o trim(stripTrailingPunctuation(collapseWhitespace(stripTrailingThe(
         stripBrackets(stripYear(stripRetro(stripBroadcast(stripSpecial(
           stripRestoration(stripAnniversary(stripLanguage(
             stripFormatTags(title)))))))))))))

\* const cacheKey = title.toLowerCase().trim()
cacheKey(title) == trim(toLowerCase(title))

(***************************************************************************)
(* fetchTMDB: the lookup                                                   *)
(*                                                                         *)
(* null, undefined and the empty string are the empty tuple; a number n is *)
(* the tuple of "num" and its decimal digits, so that every value is a     *)
(* tuple of strings.                                                       *)
(***************************************************************************)

Null == <<>>

\* the number n as a value
Num(n) == <<"num">> \o NumToChars(n)

IsNumber(v) == Len(v) > 0 /\ v[1] = "num"

\* typeof v === 'string', for a value that is not null
IsString(v) == ~IsNumber(v)

\* the natural number that the value v is
Val(v) == DigitsValue(Tail(v), Len(v) - 1)

\* JavaScript truthiness of a string, a number, null or undefined
Truthy(v) == v # <<>> /\ v # Num(0)

\* v || null
OrNull(v) == IF Truthy(v) THEN v ELSE Null

\* const fallback = { overview: null, posterPath: null, ... }
fallback ==
  [overview |-> Null, posterPath |-> Null, rating |-> Null, year |-> Null,
   runtime |-> Null, trailerUrl |-> Null, tmdbId |-> Null]

\* the first video from YouTube that is a trailer or a teaser, Null when none
findTrailer(videos) ==
  LET ok(v) == v.site = "YouTube" /\ v.type \in {"Trailer", "Teaser"}
  IN IF \E i \in 1..Len(videos) : ok(videos[i])
     THEN videos[CHOOSE i \in 1..Len(videos) :
                   ok(videos[i]) /\ \A k \in 1..(i-1) : ~ok(videos[k])]
     ELSE Null

\* The detail lookup of a matched movie: the request, then runtime and trailer.
\* detail.kind says how the request ends: "networkError" (fetch rejects),
\* "malformedJSON" (json() rejects), "badVideos" (videos.results is no array, so
\* .find throws after runtime was read) or "ok".
fetchDetails(movie, detail) ==
  LET request == [type |-> "details", id |-> movie.id]
      trailer == findTrailer(detail.videos)
  IN IF detail.kind \in {"networkError", "malformedJSON"}
       THEN [runtime |-> Null, trailerUrl |-> Null, events |-> <<request>>]
     ELSE IF detail.kind = "badVideos"
       THEN [runtime |-> OrNull(detail.runtime), trailerUrl |-> Null, events |-> <<request>>]
     ELSE [runtime |-> OrNull(detail.runtime),
           trailerUrl |-> IF trailer = Null THEN Null
                          ELSE <<"https://www.youtube.com/watch?v=">> \o trailer.key,
           events |-> <<request, [type |-> "delay", ms |-> 100]>>]

\* const result = { overview: movie.overview || null, ... }
movieResult(movie, runtime, trailerUrl) ==
  [overview |-> OrNull(movie.overview),
   posterPath |-> IF Truthy(movie.poster_path)
                  THEN <<"https://image.tmdb.org/t/p/w300">> \o movie.poster_path
                  ELSE Null,
   rating |-> OrNull(movie.vote_average),
   year |-> IF Truthy(movie.release_date)
            THEN SubSeq(movie.release_date, 1, IF Len(movie.release_date) < 4
                                               THEN Len(movie.release_date) ELSE 4)
            ELSE Null,
   runtime |-> runtime,
   trailerUrl |-> trailerUrl,
   tmdbId |-> movie.id]

\* what fetchTMDB returns for a match whose detail lookup ended as d
matched(movie, d) ==
  [threw |-> FALSE, result |-> movieResult(movie, d.runtime, d.trailerUrl),
   events |-> d.events]

\* what the catch of fetchTMDB returns
caught == [threw |-> FALSE, result |-> fallback, events |-> <<>>]

\* the lookup r, after the request that came before it
after(request, r) == [r EXCEPT !.events = <<request>> \o @]

\* the search request of fetchTMDB
searchRequest(title) == [type |-> "search", query |-> cleanTitle(title)]

\* A lookup in which a failed search request is not caught
lookupThrowsAway(title, search, detail) ==
  after(searchRequest(title),
    IF search.kind \in {"networkError", "malformedJSON"}
    THEN [threw |-> TRUE, result |-> Null, events |-> <<>>]
    ELSE caught)

\* A lookup in which a failed detail request loses the match
lookupDropsMatch(title, search, detail) ==
  after(searchRequest(title),
    IF search.kind = "ok" /\ Len(search.results) > 0 /\ search.results[1].json # "null"
       /\ detail.kind \notin {"networkError", "malformedJSON"}
    THEN matched(search.results[1], fetchDetails(search.results[1], detail))
    ELSE caught)

\* The try block of fetchTMDB and its catch: the lookup of a title that is not
\* cached.  search.kind says how the search request ends: "networkError",
\* "malformedJSON" or "ok" with search.results (empty also when the response has
\* no results field).  A first result that is JSON null makes movie.id throw, and
\* the handler of the inner catch (movie.title) throw again, into the outer catch.
lookup(title, search, detail) ==
  after(searchRequest(title),
    IF search.kind = "ok" /\ Len(search.results) > 0 /\ search.results[1].json # "null"
    THEN matched(search.results[1], fetchDetails(search.results[1], detail))
    ELSE caught)

\* A cache that keeps matches only
cacheSetMatchesOnly(cache, key, result) ==
  IF result = fallback THEN cache
  ELSE [k \in DOMAIN cache \cup {key} |-> IF k = key THEN result ELSE cache[k]]

\* tmdbCache.set(cacheKey, result), for a match and for the fallback alike
cacheSet(cache, key, result) ==
  [k \in DOMAIN cache \cup {key} |-> IF k = key THEN result ELSE cache[k]]

\* the lookup r and the cache it leaves
cached(r, cache, key) ==
  [threw |-> r.threw, result |-> r.result,
   cache |-> IF r.threw THEN cache ELSE cacheSet(cache, key, r.result),
   events |-> r.events]

\* A fetchTMDB that asks the service again when the cached entry is the
\* fallback, and writes the new answer over it
fetchTMDBRetriesFallback(title, cache, search, detail) ==
  IF ~IsString(title)
    THEN [threw |-> TRUE, result |-> Null, cache |-> cache, events |-> <<>>]
  ELSE IF cacheKey(title) \in DOMAIN cache /\ cache[cacheKey(title)] # fallback
    THEN [threw |-> FALSE, result |-> cache[cacheKey(title)], cache |-> cache,
          events |-> <<>>]
  ELSE cached(lookup(title, search, detail), cache, cacheKey(title))

\* A fetchTMDB that never reads the cache
fetchTMDBNoCache(title, cache, search, detail) ==
  IF ~IsString(title)
    THEN [threw |-> TRUE, result |-> Null, cache |-> cache, events |-> <<>>]
  ELSE cached(lookup(title, search, detail), cache, cacheKey(title))

\* fetchTMDB(title) against the cache: what it returns, the cache it leaves and
\* the requests and delays it makes.  title.toLowerCase() stands before the try,
\* so a title that is no string makes the call throw.
fetchTMDB(title, cache, search, detail) ==
  IF ~IsString(title)
    THEN [threw |-> TRUE, result |-> Null, cache |-> cache, events |-> <<>>]
  ELSE IF cacheKey(title) \in DOMAIN cache
    THEN [threw |-> FALSE, result |-> cache[cacheKey(title)], cache |-> cache,
          events |-> <<>>]
  ELSE cached(lookup(title, search, detail), cache, cacheKey(title))

(***************************************************************************)
(* Dates                                                                   *)
(***************************************************************************)

DAYS_TO_SCRAPE == 2

\* the day of the month of the Melbourne day on which the run happens
TodayDay == 5

\* getMelbourneDateStr(dayOffset): YYYY-MM-DD of the Melbourne day, dayOffset days on
getMelbourneDateStr(dayOffset) ==
  <<"2","0","2","6","-","0","1","-">> \o padStart2(NumToChars(TodayDay + dayOffset))

\* an ISO date-time of the day dayOffset days on, as the venues' APIs send it
IsoDateTime(dayOffset, hh, mm) ==
  getMelbourneDateStr(dayOffset) \o <<"T">> \o padStart2(NumToChars(hh)) \o <<":">>
    \o padStart2(NumToChars(mm)) \o <<":","0","0">>

(***************************************************************************)
(* scrapeACMI                                                              *)
(***************************************************************************)

\* str.split('T')[0]
BeforeT(str) == CutAt(str, LAMBDA i : str[i] = "T")

\* where /T(\d{2}):(\d{2})/ first matches, 0 when it does not
TimeMatchAt(str) ==
  FirstIndex(str, LAMBDA i :
    /\ i + 5 <= Len(str)
    /\ str[i] = "T"
    /\ IsDigit(str[i + 1]) /\ IsDigit(str[i + 2])
    /\ str[i + 3] = ":"
    /\ IsDigit(str[i + 4]) /\ IsDigit(str[i + 5]))

\* the time scrapeACMI gives an item: from start_datetime, else 'See website'
acmiTime(item) ==
  LET str == item.start_datetime
      i == TimeMatchAt(str)
      hours == ParseInt(str, i + 1, i + 2)
      mins == ParseInt(str, i + 4, i + 5)
      ampm == IF hours >= 12 THEN <<"p","m">> ELSE <<"a","m">>
      hour12 == IF hours % 12 = 0 THEN 12 ELSE hours % 12
  IN IF ~Truthy(str) \/ i = 0 THEN SeeWebsite
     ELSE IF mins > 0
       THEN NumToChars(hour12) \o <<":">> \o padStart2(NumToChars(mins)) \o ampm
     ELSE NumToChars(hour12) \o ampm

\* The item passes the filters of the loop: a film or of unknown type, of the
\* target date when it has a start_datetime, and with a title.
\* item.eventType is item.event_type?.name || item.event?.event_type?.name ||
\* item.type || '', item.title is item.event?.title || item.title.
acmiAccepted(item, targetDate) ==
  /\ item.eventType \in {"", "Film"}
  /\ (Truthy(item.start_datetime) => BeforeT(item.start_datetime) = targetDate)
  /\ Truthy(item.title)

\* Processing the item throws a TypeError: the item is JSON null (item.event_type),
\* or its start_datetime is truthy and no string (.split), once the type filter
\* let it through.
acmiItemThrows(item) ==
  \/ item.json = "null"
  \/ item.eventType \in {"", "Film"} /\ ~IsString(item.start_datetime)

acmiWebsiteUrl(targetDate) ==
  <<"https://www.acmi.net.au/whats-on/?what=film&when_start=">> \o targetDate
    \o <<"&when_end=">> \o targetDate

\* filmMap.has(title) ? filmMap.get(title).times.push(time) : filmMap.set(title, {...})
\* on a Map kept as the sequence of its values in insertion order
filmMapAdd(filmMap, title, time, url) ==
  IF \E k \in 1..Len(filmMap) : filmMap[k].title = title
  THEN [k \in 1..Len(filmMap) |->
          IF filmMap[k].title = title
          THEN [filmMap[k] EXCEPT !.times = Append(@, time)]
          ELSE filmMap[k]]
  ELSE Append(filmMap, [title |-> title, times |-> <<time>>, url |-> url])

RECURSIVE acmiGroup(_, _, _, _)
acmiGroup(items, i, targetDate, filmMap) ==
  IF i > Len(items) THEN filmMap
  ELSE IF acmiAccepted(items[i], targetDate)
    THEN acmiGroup(items, i + 1, targetDate,
           filmMapAdd(filmMap, items[i].title, acmiTime(items[i]),
             IF Truthy(items[i].url)
             THEN <<"https://www.acmi.net.au">> \o items[i].url
             ELSE acmiWebsiteUrl(targetDate)))
  ELSE acmiGroup(items, i + 1, targetDate, filmMap)

\* scrapeACMI(page, targetDate) on what the API answers: source.ok is false when
\* the fetch rejects, the status is not ok, or the body is no JSON; source.items
\* is the list the loop runs over.  A throw inside the loop reaches the catch
\* before sessions is filled from filmMap.
scrapeACMI(source, targetDate) ==
  [cinema |-> "ACMI",
   url |-> acmiWebsiteUrl(targetDate),
   sessions |->
     IF ~source.ok THEN <<>>
     ELSE IF \E i \in 1..Len(source.items) : acmiItemThrows(source.items[i]) THEN <<>>
     ELSE acmiGroup(source.items, 1, targetDate, <<>>)]

(***************************************************************************)
(* scrapeAstor                                                             *)
(***************************************************************************)

WeekdayNames ==
  <<"monday", "tuesday", "wednesday", "thursday", "friday", "saturday", "sunday">>

\* the day of the month of a YYYY-MM-DD string
DayOfMonth(targetDate) == ParseInt(targetDate, 9, 10)

\* targetDateObj.toLocaleDateString('en-AU', { weekday: 'long' }), lower case:
\* 5 January 2026 is a Monday
WeekdayName(targetDate) == WeekdayNames[((DayOfMonth(targetDate) + 2) % 7) + 1]

\* Math.round((targetDateObj - melbourneToday) / (1000 * 60 * 60 * 24))
DiffDays(targetDate) == DayOfMonth(targetDate) - TodayDay

\* the word dayPattern looks for: today, tomorrow or the weekday's name
astorDayLabel(targetDate) ==
  IF DiffDays(targetDate) = 0 THEN "today"
  ELSE IF DiffDays(targetDate) = 1 THEN "tomorrow"
  ELSE WeekdayName(targetDate)

Plus == <<" ", "+", " ">>

RECURSIVE JoinPlus(_)
\* titles.join(' + ')
JoinPlus(titles) ==
  IF Len(titles) = 0 THEN <<>>
  ELSE IF Len(titles) = 1 THEN titles[1]
  ELSE titles[1] \o Plus \o JoinPlus(Tail(titles))

\* the text of a film link without its rating bracket:
\* match[2].trim().replace(/\s*\[.*?\]\s*$/, '').trim()
astorTitle(text) == trim(stripBrackets(trim(text)))

RECURSIVE astorTitles(_, _, _)
\* the distinct non-empty titles of a block's film links, in order, with the
\* link of each: [titles, urls]
astorTitles(anchors, i, acc) ==
  IF i > Len(anchors) THEN acc
  ELSE LET title == astorTitle(anchors[i].text)
       IN IF title # <<>> /\ ~\E k \in 1..Len(acc.titles) : acc.titles[k] = title
          THEN astorTitles(anchors, i + 1,
                 [titles |-> Append(acc.titles, title),
                  urls |-> Append(acc.urls, anchors[i].href)])
          ELSE astorTitles(anchors, i + 1, acc)

\* First pass: the films of the blocks that name the target day.  A block is what
\* the patterns see of one movie_preview element: block.words, the day words that
\* occur anywhere in its text; block.showtime, the time of its first "<day> at
\* <time>" (Null when it has none) and block.labelDay, the day word of that
\* match; block.doubleFeature, whether it says "double
\* feature"; block.anchors, its links to /films/ pages.
RECURSIVE astorTargetFilmsByFlag(_, _, _)
\* the first pass when the words "double feature" alone make a double feature
astorTargetFilmsByFlag(blocks, i, targetDate) ==
  IF i > Len(blocks) THEN <<>>
  ELSE LET block == blocks[i]
           time == IF block.showtime = Null THEN SeeWebsite
                   ELSE trim(toLowerCase(block.showtime))
           t == astorTitles(block.anchors, 1, [titles |-> <<>>, urls |-> <<>>])
           rest == astorTargetFilmsByFlag(blocks, i + 1, targetDate)
       IN IF astorDayLabel(targetDate) \notin block.words THEN rest
          ELSE IF Len(t.titles) = 0 THEN rest
          ELSE IF block.doubleFeature
            THEN <<[title |-> JoinPlus(t.titles), time |-> time, url |-> t.urls[1],
                    isDouble |-> TRUE, film1 |-> t.titles[1],
                    film2 |-> t.titles[Len(t.titles)]]>>
                 \o rest
          ELSE <<[title |-> t.titles[1], time |-> time, url |-> t.urls[1],
                  isDouble |-> FALSE]>> \o rest

RECURSIVE astorTargetFilms(_, _, _)
astorTargetFilms(blocks, i, targetDate) ==
  IF i > Len(blocks) THEN <<>>
  ELSE LET block == blocks[i]
           time == IF block.showtime = Null THEN SeeWebsite
                   ELSE trim(toLowerCase(block.showtime))
           t == astorTitles(block.anchors, 1, [titles |-> <<>>, urls |-> <<>>])
           rest == astorTargetFilms(blocks, i + 1, targetDate)
       IN IF astorDayLabel(targetDate) \notin block.words THEN rest
          ELSE IF Len(t.titles) = 0 THEN rest
          ELSE IF block.doubleFeature /\ Len(t.titles) >= 2
            THEN <<[title |-> JoinPlus(t.titles), time |-> time, url |-> t.urls[1],
                    isDouble |-> TRUE, film1 |-> t.titles[1], film2 |-> t.titles[2]]>>
                 \o rest
          ELSE <<[title |-> t.titles[1], time |-> time, url |-> t.urls[1],
                  isDouble |-> FALSE]>> \o rest

RECURSIVE astorDedupe(_, _, _)
\* Dedupe by title: the first film of each title becomes a session
astorDedupe(targetFilms, i, sessions) ==
  IF i > Len(targetFilms) THEN sessions
  ELSE LET film == targetFilms[i]
       IN IF \E k \in 1..Len(sessions) : sessions[k].title = film.title
          THEN astorDedupe(targetFilms, i + 1, sessions)
          ELSE IF film.isDouble
            THEN astorDedupe(targetFilms, i + 1, Append(sessions,
                   [title |-> film.title, times |-> <<film.time>>, url |-> film.url,
                    isDoubleFeature |-> TRUE, film1 |-> film.film1, film2 |-> film.film2]))
          ELSE astorDedupe(targetFilms, i + 1, Append(sessions,
                 [title |-> film.title, times |-> <<film.time>>, url |-> film.url,
                  isDoubleFeature |-> FALSE]))

AstorUrl == <<"https://www.astortheatre.net.au/">>

\* scrapeAstor(page, targetDate) on the blocks of the home page and the AJAX
\* answer; source.ok is false when the fetch of the home page rejects
scrapeAstor(source, targetDate) ==
  [cinema |-> "The Astor Theatre",
   url |-> AstorUrl,
   sessions |->
     IF ~source.ok THEN <<>>
     ELSE astorDedupe(astorTargetFilms(source.blocks, 1, targetDate), 1, <<>>)]

(***************************************************************************)
(* scrapeBrunswickPictureHouse                                             *)
(***************************************************************************)

BrunswickUrl == <<"https://www.brunswickpicturehouse.com.au/now-showing/">>

\* the times of a card's buttons that read as H:MM AM/PM, in order;
\* a button without a time element has the text Null
RECURSIVE brunswickTimes(_, _)
brunswickTimes(buttons, i) ==
  IF i > Len(buttons) THEN <<>>
  ELSE IF Truthy(buttons[i]) /\ Match12(buttons[i])
    THEN <<buttons[i]>> \o brunswickTimes(buttons, i + 1)
  ELSE brunswickTimes(buttons, i + 1)

\* movieCards.forEach: a card without a title, with a title seen before, or
\* without a valid time adds nothing.  card.title is the trimmed text of the
\* title element, Null when the card has none.
RECURSIVE brunswickCards(_, _, _)
brunswickCards(cards, i, items) ==
  IF i > Len(cards) THEN items
  ELSE LET title == cards[i].title
           times == brunswickTimes(cards[i].buttons, 1)
       IN IF ~Truthy(title) \/ \E k \in 1..Len(items) : items[k].title = title
            THEN brunswickCards(cards, i + 1, items)
          ELSE IF Len(times) > 0
            THEN brunswickCards(cards, i + 1,
                   Append(items, [title |-> title, times |-> times, url |-> BrunswickUrl]))
          ELSE brunswickCards(cards, i + 1, items)

\* scrapeBrunswickPictureHouse(page, targetDate) on the rendered page:
\* source.sections are the day headers in document order, each with the day
\* words of its text (words), whether a poster list follows it (posterList) and
\* that list's now-playing cards; source.ok is false when the navigation fails.
scrapeBrunswickPictureHouse(source, targetDate) ==
  LET isTarget(sec) == astorDayLabel(targetDate) \in sec.words /\ sec.posterList
      secs == source.sections
  IN [cinema |-> "Brunswick Picture House",
      url |-> BrunswickUrl,
      sessions |->
        IF ~source.ok THEN <<>>
        ELSE IF ~\E i \in 1..Len(secs) : isTarget(secs[i]) THEN <<>>
        ELSE brunswickCards(
               secs[CHOOSE i \in 1..Len(secs) :
                      isTarget(secs[i]) /\ \A k \in 1..(i-1) : ~isTarget(secs[k])].cards,
               1, <<>>)]

(***************************************************************************)
(* scrapeEclipse                                                           *)
(***************************************************************************)

EclipseUrl == <<"https://eclipse-cinema.com.au/session-time/">>

DayNames == <<"Mon", "Tue", "Wed", "Thu", "Fri", "Sat", "Sun">>

\* the date as the Eclipse page writes it in class names, "Mon-05-Jan"
eclipseDateStr(targetDate) ==
  <<DayNames[((DayOfMonth(targetDate) + 2) % 7) + 1], "-">>
    \o SubSeq(targetDate, 9, 10) \o <<"-", "Jan">>

\* the texts of an entry's time links of the target date that read as H:MM
RECURSIVE eclipseTimes(_, _, _)
eclipseTimes(links, i, dateStr) ==
  IF i > Len(links) THEN <<>>
  ELSE IF links[i].date = dateStr /\ Truthy(links[i].text) /\ Match24(links[i].text)
    THEN <<links[i].text>> \o eclipseTimes(links, i + 1, dateStr)
  ELSE eclipseTimes(links, i + 1, dateStr)

\* filmEntries.forEach over the entries that carry the class of the target date
RECURSIVE eclipseEntries(_, _, _)
eclipseEntries(entries, i, dateStr) ==
  IF i > Len(entries) THEN <<>>
  ELSE LET times == eclipseTimes(entries[i].links, 1, dateStr)
           rest == eclipseEntries(entries, i + 1, dateStr)
       IN IF dateStr \notin entries[i].dates THEN rest
          ELSE IF ~Truthy(entries[i].title) THEN rest
          ELSE IF Len(times) > 0
            THEN <<[title |-> entries[i].title, times |-> times, url |-> EclipseUrl]>>
                 \o rest
          ELSE rest

\* scrapeEclipse(page, targetDate) on the rendered page: source.entries are the
\* film entries, each with the dates of its classes, its trimmed title (Null
\* when it has none) and its time links
scrapeEclipse(source, targetDate) ==
  [cinema |-> "Eclipse Cinema",
   url |-> EclipseUrl,
   sessions |->
     IF ~source.ok THEN <<>>
     ELSE eclipseEntries(source.entries, 1, eclipseDateStr(targetDate))]

(***************************************************************************)
(* scrapeCinemaNova                                                        *)
(***************************************************************************)

IsSlugChar(c) == IsLower(c) \/ IsDigit(c)

RECURSIVE novaSlugFrom(_, _)
novaSlugFrom(s, i) ==
  IF i > Len(s) THEN <<>>
  ELSE IF IsSlugChar(s[i]) THEN <<s[i]>> \o novaSlugFrom(s, i + 1)
  ELSE IF i > 1 /\ ~IsSlugChar(s[i - 1]) THEN novaSlugFrom(s, i + 1)
  ELSE <<"-">> \o novaSlugFrom(s, i + 1)

\* title.toLowerCase().replace(/[^a-z0-9]+/g, '-').replace(/^-|-$/g, '')
novaSlug(title) ==
  LET d == novaSlugFrom(toLowerCase(title), 1)
      a == IF Len(d) > 0 /\ d[1] = "-" THEN Tail(d) ELSE d
  IN IF Len(a) > 0 /\ a[Len(a)] = "-" THEN SubSeq(a, 1, Len(a) - 1) ELSE a

\* 'today' or the weekday's name: the day in the address of the page
novaDaySlug(targetDate) ==
  IF DiffDays(targetDate) = 0 THEN "today" ELSE WeekdayName(targetDate)

novaUrl(targetDate) ==
  <<"https://www.cinemanova.com.au/films-", novaDaySlug(targetDate), "-after-0:00">>

\* rows.forEach: a row with two cells or more, a time that reads as H:MM and a
\* title adds its time to the film of its title.  row.time and row.title are the
\* trimmed texts of the first two cells.
RECURSIVE novaRows(_, _, _)
novaRows(rows, i, filmMap) ==
  IF i > Len(rows) THEN filmMap
  ELSE LET row == rows[i]
       IN IF row.cells >= 2 /\ Truthy(row.time) /\ Truthy(row.title) /\ Match24(row.time)
          THEN novaRows(rows, i + 1,
                 filmMapAdd(filmMap, row.title, row.time,
                   <<"https://www.cinemanova.com.au/films/">> \o novaSlug(row.title)))
          ELSE novaRows(rows, i + 1, filmMap)

\* scrapeCinemaNova(page, targetDate) on the rows of the day's page
scrapeCinemaNova(source, targetDate) ==
  [cinema |-> "Cinema Nova",
   url |-> novaUrl(targetDate),
   sessions |-> IF ~source.ok THEN <<>> ELSE novaRows(source.rows, 1, <<>>)]

(***************************************************************************)
(* scrapePalaceFromNextData and the venues that use it                     *)
(***************************************************************************)

\* str.substring(a, b) with 0-based bounds a <= b, clipped to the string
Substring(str, a, b) ==
  SubSeq(str, a + 1, IF b > Len(str) THEN Len(str) ELSE b)

\* parseInt(str, 10) of a string without sign or leading space: the number its
\* leading digits spell, and -1 for NaN when it starts with none
parseInt(str) ==
  LET n == SkipDigits(str, 1) - 1 IN IF n = 0 THEN -1 ELSE DigitsValue(str, n)

\* the time of a session: the HH:MM of its ISO date, as hour12:MMam/pm
palaceTime(date) ==
  LET timeStr == Substring(date, 11, 16)
      colon == FirstIndex(timeStr, LAMBDA i : timeStr[i] = ":")
      hours == IF colon = 0 THEN timeStr ELSE SubSeq(timeStr, 1, colon - 1)
      afterColon == SubSeq(timeStr, colon + 1, Len(timeStr))
      minutes == IF colon = 0 THEN <<"u","n","d","e","f","i","n","e","d">>
                 ELSE CutAt(afterColon, LAMBDA i : afterColon[i] = ":")
      hour == parseInt(hours)
      ampm == IF hour >= 12 THEN <<"p","m">> ELSE <<"a","m">>
      hour12 == IF hour = 0 THEN 12 ELSE IF hour > 12 THEN hour - 12 ELSE hour
  IN (IF hour = -1 THEN <<"N","a","N">> ELSE NumToChars(hour12))
       \o <<":">> \o minutes \o ampm

\* the session is of the target date and of this cinema
palaceMatches(session, targetDate, cinemaId) ==
  /\ Truthy(session.date)
  /\ Substring(session.date, 0, 10) = targetDate
  /\ session.cinemaId = cinemaId

RECURSIVE palaceTimes(_, _, _, _)
palaceTimes(sessions, i, targetDate, cinemaId) ==
  IF i > Len(sessions) THEN <<>>
  ELSE IF palaceMatches(sessions[i], targetDate, cinemaId)
    THEN <<palaceTime(sessions[i].date)>> \o palaceTimes(sessions, i + 1, targetDate, cinemaId)
  ELSE palaceTimes(sessions, i + 1, targetDate, cinemaId)

\* Handling the movie throws a TypeError: the movie is JSON null (movie.title),
\* or it has a title and one of its sessions has a date that is no string
\* (.substring)
palaceMovieThrows(movie) ==
  \/ movie.json = "null"
  \/ /\ Truthy(movie.title)
     /\ \E k \in 1..Len(movie.sessions) : ~IsString(movie.sessions[k].date)

\* movies.forEach inside the try of the page function: a throw ends the loop and
\* the items pushed before it are returned
RECURSIVE palaceMovies(_, _, _, _)
palaceMovies(movies, i, targetDate, cinemaId) ==
  IF i > Len(movies) THEN <<>>
  ELSE IF palaceMovieThrows(movies[i]) THEN <<>>
  ELSE LET movie == movies[i]
           times == palaceTimes(movie.sessions, 1, targetDate, cinemaId)
           rest == palaceMovies(movies, i + 1, targetDate, cinemaId)
       IN IF ~Truthy(movie.title) THEN rest
          ELSE IF Len(times) > 0
            THEN <<[title |-> movie.title, times |-> times,
                    url |-> <<"https://www.palacecinemas.com.au/movies/">> \o movie.slug]>>
                 \o rest
          ELSE rest

\* scrapePalaceFromNextData(page, targetDate, cinemaName, url, cinemaId) on the
\* page: source.ok is false when the navigation fails; source.nextData is
\* "missing" (no __NEXT_DATA__ element), "malformed" (JSON.parse throws) or "ok";
\* source.pageCinemaId is the cinemaId of the page's data (Null when absent) and
\* source.movies its pageProps.sessions
scrapePalaceFromNextData(source, targetDate, cinemaName, url, cinemaIdParam) ==
  LET cinemaId == IF Truthy(cinemaIdParam) THEN cinemaIdParam ELSE source.pageCinemaId
  IN [cinema |-> cinemaName,
      url |-> url,
      sessions |->
        IF ~source.ok \/ source.nextData # "ok" THEN <<>>
        ELSE IF ~Truthy(cinemaId) THEN <<>>
        ELSE palaceMovies(source.movies, 1, targetDate, cinemaId)]

scrapePalaceComo(source, targetDate) ==
  scrapePalaceFromNextData(source, targetDate, "Palace Como",
    <<"https://www.palacecinemas.com.au/cinemas/palace-cinema-como">>, <<"1","5","5">>)

scrapePalaceKino(source, targetDate) ==
  scrapePalaceFromNextData(source, targetDate, "Palace Kino",
    <<"https://www.palacecinemas.com.au/cinemas/the-kino-melbourne">>, Null)

scrapePalaceWestgarth(source, targetDate) ==
  scrapePalaceFromNextData(source, targetDate, "Palace Westgarth",
    <<"https://www.palacecinemas.com.au/cinemas/palace-westgarth">>, Null)

scrapePentridge(source, targetDate) ==
  scrapePalaceFromNextData(source, targetDate, "Pentridge Cinema",
    <<"https://www.palacecinemas.com.au/cinemas/pentridge-cinema">>, Null)

(***************************************************************************)
(* The extractors that are not implemented yet                             *)
(***************************************************************************)

scrapeLido(source, targetDate) ==
  [cinema |-> "Lido Cinemas",
   url |-> <<"https://www.lidocinemas.com.au/now-showing">>,
   sessions |-> <<>>]

scrapeHoyts(source, targetDate) ==
  [cinema |-> "Hoyts Melbourne Central",
   url |-> <<"https://www.hoyts.com.au/cinemas/melbourne-central">>,
   sessions |-> <<>>,
   note |-> "Lux sessions not listed"]

scrapeSunTheatre(source, targetDate) ==
  [cinema |-> "Sun Theatre",
   url |-> <<"https://suntheatre.com.au/now-playing/">>,
   sessions |-> <<>>]

scrapeImax(source, targetDate) ==
  [cinema |-> "Imax Melbourne",
   url |-> <<"https://imaxmelbourne.com.au/session_times_and_tickets">>,
   sessions |-> <<>>]

\* const scrapers = [ scrapeACMI, ..., scrapeSunTheatre ]
scrapers ==
  <<"scrapeACMI", "scrapeBrunswickPictureHouse", "scrapeEclipse", "scrapeCinemaNova",
    "scrapeLido", "scrapeHoyts", "scrapeAstor", "scrapePalaceComo", "scrapePalaceKino",
    "scrapePalaceWestgarth", "scrapePentridge", "scrapeImax", "scrapeSunTheatre">>

\* scraper(page, targetDate) for the scraper of that name
runScraper(name, source, targetDate) ==
  CASE name = "scrapeACMI" -> scrapeACMI(source, targetDate)
    [] name = "scrapeBrunswickPictureHouse" -> scrapeBrunswickPictureHouse(source, targetDate)
    [] name = "scrapeEclipse" -> scrapeEclipse(source, targetDate)
    [] name = "scrapeCinemaNova" -> scrapeCinemaNova(source, targetDate)
    [] name = "scrapeLido" -> scrapeLido(source, targetDate)
    [] name = "scrapeHoyts" -> scrapeHoyts(source, targetDate)
    [] name = "scrapeAstor" -> scrapeAstor(source, targetDate)
    [] name = "scrapePalaceComo" -> scrapePalaceComo(source, targetDate)
    [] name = "scrapePalaceKino" -> scrapePalaceKino(source, targetDate)
    [] name = "scrapePalaceWestgarth" -> scrapePalaceWestgarth(source, targetDate)
    [] name = "scrapePentridge" -> scrapePentridge(source, targetDate)
    [] name = "scrapeImax" -> scrapeImax(source, targetDate)
    [] name = "scrapeSunTheatre" -> scrapeSunTheatre(source, targetDate)

(***************************************************************************)
(* enrichWithTMDB                                                          *)
(***************************************************************************)

\* obj.field = value on an object that may not have the field yet
Assign(obj, field, value) ==
  [f \in DOMAIN obj \cup {field} |-> IF f = field THEN value ELSE obj[f]]

\* the times standardised and in reverse order
standardiseTimesReversed(times) ==
  [i \in 1..Len(times) |-> standardiseTime(times[Len(times) + 1 - i])]

\* times.map(t => standardiseTime(t))
standardiseTimes(times) == [i \in 1..Len(times) |-> standardiseTime(times[i])]

\* where sep first occurs in s, 0 when it does not: String.prototype.indexOf
IndexOf(s, sep) ==
  FirstIndex(s, LAMBDA i :
    i + Len(sep) - 1 <= Len(s) /\ SubSeq(s, i, i + Len(sep) - 1) = sep)

\* s.includes(sep)
IncludesText(s, sep) == IndexOf(s, sep) > 0

RECURSIVE Split(_, _)
\* s.split(sep)
Split(s, sep) ==
  LET i == IndexOf(s, sep)
  IN IF i = 0 THEN <<s>>
     ELSE <<SubSeq(s, 1, i - 1)>> \o Split(SubSeq(s, i + Len(sep), Len(s)), sep)

Ampersand == <<" ", "&", " ">>

\* JSON null where an object is expected: a search result, an item, a movie
NoMovie == [json |-> "null"]

\* how the search ended, for the trace: "failed" (the request or its JSON),
\* "noResults" or "match"
searchOutcome(search) ==
  IF search.kind \in {"networkError", "malformedJSON"} THEN "failed"
  ELSE IF Len(search.results) = 0 THEN "noResults"
  ELSE IF search.results[1] = NoMovie THEN "failed"
  ELSE "match"

\* how the detail request ended, for the trace: "failed", "partial" (runtime
\* read, then a throw) or "ok"
detailOutcome(detail) ==
  IF detail.kind \in {"networkError", "malformedJSON"} THEN "failed"
  ELSE IF detail.kind = "badVideos" THEN "partial"
  ELSE "ok"

\* the return of a call of fetchTMDB in the trace, with how its requests ended
\* (search and detail are "none" when the request was not made) and the movie
\* matched
returnEvent(title, r, search, answer) ==
  [type |-> "return", title |-> title, threw |-> r.threw, result |-> r.result,
   search |-> search,
   detail |-> IF search = "match" THEN detailOutcome(answer.detail) ELSE "none",
   movie |-> IF search = "match" THEN answer.search.results[1] ELSE NoMovie]

\* the call r of fetchTMDB with its trace: the call, and whether the cache held
\* the title's key when it was made, the requests and delays, and the return
traced(title, wasCached, r, answer) ==
  [threw |-> r.threw, result |-> r.result, cache |-> r.cache,
   events |->
     <<[type |-> "call", title |-> title, cached |-> wasCached]>>
     \o r.events
     \o <<returnEvent(title, r,
            IF r.events = <<>> THEN "none" ELSE searchOutcome(answer.search), answer)>>]

\* one call of fetchTMDB from enrichWithTMDB
callFetchTMDB(title, cache, answer) ==
  traced(title, IsString(title) /\ cacheKey(title) \in DOMAIN cache,
         fetchTMDB(title, cache, answer.search, answer.detail), answer)

Delay250 == [type |-> "delay", ms |-> 250]

\* the loop body with totalRuntime = tmdb.runtime in place of +=: the total is
\* the runtime of the last film alone
addFilmLastRuntime(acc, title, r) ==
  IF r.threw
    THEN [acc EXCEPT !.threw = TRUE, !.cache = r.cache, !.events = @ \o r.events]
  ELSE [threw |-> FALSE,
        films |-> Append(acc.films, Assign(r.result, "title", title)),
        totalRuntime |-> IF Truthy(r.result.runtime) THEN Val(r.result.runtime) ELSE 0,
        cache |-> r.cache,
        events |-> acc.events \o r.events \o <<Delay250>>]

\* films.push({ title, ...tmdb }), totalRuntime += tmdb.runtime and the delay,
\* after the call r of fetchTMDB; a call that throws ends the loop
addFilm(acc, title, r) ==
  IF r.threw
    THEN [acc EXCEPT !.threw = TRUE, !.cache = r.cache, !.events = @ \o r.events]
  ELSE [threw |-> FALSE,
        films |-> Append(acc.films, Assign(r.result, "title", title)),
        totalRuntime |-> IF Truthy(r.result.runtime)
                         THEN acc.totalRuntime + Val(r.result.runtime)
                         ELSE acc.totalRuntime,
        cache |-> r.cache,
        events |-> acc.events \o r.events \o <<Delay250>>]

\* The loop over the constituent titles of a double feature: acc holds films,
\* totalRuntime, the cache and the trace so far.
RECURSIVE enrichFilms(_, _, _, _)
enrichFilms(titles, i, answers, acc) ==
  IF i > Len(titles) \/ acc.threw THEN acc
  ELSE enrichFilms(titles, i + 1, answers,
         addFilm(acc, trim(titles[i]),
                 callFetchTMDB(trim(titles[i]), acc.cache, answers[i])))

\* a double feature told by the separator in its title alone, flag or no flag
isDoubleFeatureBySeparator(session) ==
  IncludesText(session.title, Plus) \/ IncludesText(session.title, Ampersand)

\* the titles enrichWithTMDB looks up for a session
isDoubleFeature(session) ==
  /\ "isDoubleFeature" \in DOMAIN session
  /\ session.isDoubleFeature
  /\ (IncludesText(session.title, Plus) \/ IncludesText(session.title, Ampersand))

lookupTitles(session) ==
  IF isDoubleFeature(session)
  THEN Split(session.title, IF IncludesText(session.title, Plus) THEN Plus ELSE Ampersand)
  ELSE <<session.title>>

\* the fields of a double feature when the rating is the first film's alone
doubleFeatureFieldsFirstRating(session, films, totalRuntime) ==
  LET first == films[1]
      second == IF Len(films) >= 2 THEN films[2] ELSE [rating |-> Null, trailerUrl |-> Null]
      s1 == Assign(session, "films", films)
      s2 == IF Truthy(first.posterPath) THEN Assign(s1, "posterPath", first.posterPath) ELSE s1
      s3 == IF Truthy(first.overview) THEN Assign(s2, "overview", first.overview) ELSE s2
      s4 == Assign(s3, "runtime", IF totalRuntime > 0 THEN Num(totalRuntime) ELSE Null)
      s5 == Assign(s4, "year", OrNull(first.year))
      s6 == Assign(s5, "rating", OrNull(first.rating))
  IN Assign(s6, "trailerUrl",
       IF Truthy(first.trailerUrl) THEN first.trailerUrl ELSE OrNull(second.trailerUrl))

\* the fields of a double feature, from the films of its constituents; a rating
\* is in twentieths of a point, so that the mean of two ratings is whole
doubleFeatureFields(session, films, totalRuntime) ==
  LET first == films[1]
      second == IF Len(films) >= 2 THEN films[2] ELSE [rating |-> Null, trailerUrl |-> Null]
      s1 == Assign(session, "films", films)
      s2 == IF Truthy(first.posterPath) THEN Assign(s1, "posterPath", first.posterPath) ELSE s1
      s3 == IF Truthy(first.overview) THEN Assign(s2, "overview", first.overview) ELSE s2
      s4 == Assign(s3, "runtime", IF totalRuntime > 0 THEN Num(totalRuntime) ELSE Null)
      s5 == Assign(s4, "year", OrNull(first.year))
      s6 == Assign(s5, "rating",
              IF Truthy(first.rating) /\ Truthy(second.rating)
              THEN Num((Val(first.rating) + Val(second.rating)) \div 2)
              ELSE IF Truthy(first.rating) THEN first.rating ELSE OrNull(second.rating))
  IN Assign(s6, "trailerUrl",
       IF Truthy(first.trailerUrl) THEN first.trailerUrl ELSE OrNull(second.trailerUrl))

\* the fields of an ordinary session, from its lookup
singleFields(session, tmdb) ==
  Assign(Assign(Assign(Assign(Assign(Assign(session,
    "overview", tmdb.overview), "posterPath", tmdb.posterPath), "rating", tmdb.rating),
    "year", tmdb.year), "runtime", tmdb.runtime), "trailerUrl", tmdb.trailerUrl)

\* session.times and session.premiumTimes through standardiseTime
standardised(session) ==
  [f \in DOMAIN session |->
     IF f \in {"times", "premiumTimes"} THEN standardiseTimes(session[f])
     ELSE session[f]]

\* the constituents looked up with Promise.all instead of one after the other:
\* every call is made before any of them has returned
doubleSessionParallel(session, d) ==
  IF d.threw
    THEN [threw |-> TRUE, session |-> session, cache |-> d.cache, events |-> d.events]
  ELSE [threw |-> FALSE,
        session |-> doubleFeatureFields(session, d.films, d.totalRuntime),
        cache |-> d.cache,
        events |-> SelectSeq(d.events, LAMBDA e : e.type = "call")
                     \o SelectSeq(d.events, LAMBDA e : e.type # "call")]

\* the double feature after the loop d over its constituents
doubleSession(session, d) ==
  IF d.threw
    THEN [threw |-> TRUE, session |-> session, cache |-> d.cache, events |-> d.events]
  ELSE [threw |-> FALSE,
        session |-> doubleFeatureFields(session, d.films, d.totalRuntime),
        cache |-> d.cache, events |-> d.events]

\* the ordinary session without the delay that ends its iteration
singleSessionNoDelay(session, r) ==
  IF r.threw
    THEN [threw |-> TRUE, session |-> session, cache |-> r.cache, events |-> r.events]
  ELSE [threw |-> FALSE, session |-> singleFields(session, r.result),
        cache |-> r.cache, events |-> r.events]

\* the ordinary session after the call r of fetchTMDB
singleSession(session, r) ==
  IF r.threw
    THEN [threw |-> TRUE, session |-> session, cache |-> r.cache, events |-> r.events]
  ELSE [threw |-> FALSE, session |-> singleFields(session, r.result),
        cache |-> r.cache, events |-> r.events \o <<Delay250>>]

\* the iteration on the session with its times standardised
enrichStandardised(session, cache, answers) ==
  IF isDoubleFeature(session)
    THEN doubleSession(session,
           enrichFilms(lookupTitles(session), 1, answers,
             [threw |-> FALSE, films |-> <<>>, totalRuntime |-> 0, cache |-> cache,
              events |-> <<>>]))
  ELSE singleSession(session, callFetchTMDB(session.title, cache, answers[1]))

\* One iteration of the loop of enrichWithTMDB over cinemaData.sessions: the
\* session as it leaves the iteration, the cache and the trace; answers[i] is
\* the service's answer to the i-th lookup.  threw: fetchTMDB threw, and so does
\* enrichWithTMDB.
enrichSession(session, cache, answers) ==
  enrichStandardised(standardised(session), cache, answers)

(***************************************************************************)
(* The run: main                                                           *)
(***************************************************************************)

VARIABLES
  apiKey,        \* whether TMDB_API_KEY is set
  pc,            \* where main stands
  exitCode,      \* the status the process exited with, -1 while it runs
  browser,       \* "none", "open" or "closed"
  dayOffset,     \* the day main works on
  scraperIdx,    \* the scraper of the list main works on
  data,          \* the venue result under enrichment: cinemaData
  sessionIdx,    \* the session of data the loop of enrichWithTMDB stands at
  results,       \* the venue results of the day so far
  days,          \* the day results so far
  tmdbCache,     \* the cache of fetchTMDB, a function of the keys it holds
  log,           \* the trace of the run: scrapes, lookups, requests, delays
  feed,          \* what was written to sessions.json, one element per write
  listingsSeen,  \* how many listings the venues' sources have held so far
  exScraper,     \* one extraction on its own: the scraper,
  exUnits,       \* the listing units its venue serves for the day,
  exResult,      \* and the venue result it returns, NoData before it ran
  fnName,        \* one function on its own: the function called,
  fnArg,         \* the string it is called with,
  fnResults      \* and what it returned, and what it returned for that in turn

mainVars ==
  <<apiKey, pc, exitCode, browser, dayOffset, scraperIdx, data, sessionIdx,
    results, days, tmdbCache, log, feed, listingsSeen>>

exVars == <<exScraper, exUnits, exResult>>

fnVars == <<fnName, fnArg, fnResults>>

vars == <<mainVars, exVars, fnVars>>

\* the most listings the sources of one run hold
MaxListings == 2

\* the most listing units the source of one extraction holds
MaxUnits == 2

\* The titles the venues show: a film, the same film with a format tag, the same
\* film in capitals, another film, and the film "1917" where the API sends its
\* title as a JSON number
Up == <<"U","p">>

Up3D == <<"U","p"," ","3","D">>

UPCaps == <<"U","P">>

Ran == <<"R","a","n">>

Title1917 == Num(1917)

\* what the search can answer with
MovieFull ==
  [json |-> "object", id |-> Num(11), title |-> Up, overview |-> <<"An old man flies.">>,
   poster_path |-> <<"/up.jpg">>, vote_average |-> Num(150),
   release_date |-> <<"2","0","0","9","-","0","5","-","2","9">>]

MovieBare ==
  [json |-> "object", id |-> Num(12), title |-> Ran, overview |-> Null,
   poster_path |-> Null, vote_average |-> Num(0), release_date |-> Null]

SearchAnswers ==
  { [kind |-> "networkError", results |-> <<>>],
    [kind |-> "malformedJSON", results |-> <<>>],
    [kind |-> "ok", results |-> <<>>],
    [kind |-> "ok", results |-> <<NoMovie>>],
    [kind |-> "ok", results |-> <<MovieFull, MovieBare>>],
    [kind |-> "ok", results |-> <<MovieBare>>] }

DetailAnswers ==
  { [kind |-> "networkError", runtime |-> Null, videos |-> <<>>],
    [kind |-> "malformedJSON", runtime |-> Null, videos |-> <<>>],
    [kind |-> "badVideos", runtime |-> Num(96), videos |-> <<>>],
    [kind |-> "ok", runtime |-> Num(96),
     videos |-> << [site |-> "Vimeo", type |-> "Trailer", key |-> <<"v1">>],
                   [site |-> "YouTube", type |-> "Featurette", key |-> <<"y1">>],
                   [site |-> "YouTube", type |-> "Teaser", key |-> <<"y2">>] >>] }

\* What the service answers to a lookup: how the search request ends and, when
\* the search matches, how the detail request ends
Answers ==
  { a \in [search : SearchAnswers, detail : DetailAnswers] :
      searchOutcome(a.search) # "match" => a.detail.kind = "networkError" }

\* the sequences over S of length n at most
SeqUpTo(S, n) == UNION { [1..k -> S] : k \in 0..n }

\* an item of the ACMI API: a film of the day at 16:00
AcmiItem(title, offset) ==
  [json |-> "object", eventType |-> "Film", title |-> title, url |-> Null,
   start_datetime |-> IsoDateTime(offset, 16, 0)]

\* a block of the Astor page that names the day, with a showtime and links
AstorBlock(anchors, double, time, offset) ==
  [words |-> {astorDayLabel(getMelbourneDateStr(offset))}, showtime |-> time,
   labelDay |-> astorDayLabel(getMelbourneDateStr(offset)),
   doubleFeature |-> double, anchors |-> anchors]

AstorLink(title) == [href |-> <<"/films/">> \o toLowerCase(title), text |-> title]

\* a page or an API that cannot be reached
Unreachable ==
  [ok |-> FALSE, items |-> <<>>, blocks |-> <<>>, sections |-> <<>>, entries |-> <<>>,
   rows |-> <<>>, nextData |-> "missing", pageCinemaId |-> Null, movies |-> <<>>]

\* a page or an API that is reached and lists nothing
Empty == [Unreachable EXCEPT !.ok = TRUE, !.nextData = "ok", !.pageCinemaId = <<"9","9">>]

\* the listings a source holds: items, and films of blocks
RECURSIVE Links(_)
Links(blocks) ==
  IF Len(blocks) = 0 THEN 0 ELSE Len(blocks[1].anchors) + Links(Tail(blocks))

Listings(source) == Len(source.items) + Links(source.blocks)

\* What the ACMI API and the Astor page can hold for a day, with n listings at
\* most: the other venues list nothing in the runs explored
AcmiSources(titles, offset, n) ==
  { [Empty EXCEPT !.items = items] :
      items \in SeqUpTo({ AcmiItem(t, offset) : t \in titles }, n) }

AstorSources(titles, offset, n) ==
  { source \in
      { [Empty EXCEPT !.blocks = blocks] :
          blocks \in SeqUpTo(
            { AstorBlock(<<AstorLink(t)>>, FALSE, <<"7",":","3","0"," ","P","M">>, offset) :
                t \in titles }
            \cup { AstorBlock(<<AstorLink(Up), AstorLink(Ran \o <<" ","[","M","]">>)>>,
                              TRUE, <<"7","p","m">>, offset) },
            n) } :
      Listings(source) <= n }

\* what the venue of a scraper serves in a run of which n listings are left
RunSources(name, offset, n) ==
  {Unreachable, Empty} \cup
  CASE name = "scrapeACMI" -> AcmiSources({Up, Up3D, Title1917}, offset, n)
    [] name = "scrapeAstor" -> AstorSources({UPCaps}, offset, n)
    [] OTHER -> {}

\* no venue result: before a scraper has returned
NoData == [cinema |-> "", url |-> <<>>, sessions |-> <<>>]

DisplayWeekdays ==
  <<"Monday", "Tuesday", "Wednesday", "Thursday", "Friday", "Saturday", "Sunday">>

\* getDisplayDate(dayOffset): the day as en-AU writes it in full,
\* "Monday, 5 January 2026"
getDisplayDate(offset) ==
  <<DisplayWeekdays[((TodayDay + offset + 2) % 7) + 1], ",", " ">>
    \o NumToChars(TodayDay + offset) \o <<" ", "January", " ", "2026">>

MainInit ==
  /\ apiKey \in BOOLEAN
  /\ pc = "start"
  /\ exitCode = -1
  /\ browser = "none"
  /\ dayOffset = 0
  /\ scraperIdx = 1
  /\ data = NoData
  /\ sessionIdx = 1
  /\ results = <<>>
  /\ days = <<>>
  /\ tmdbCache = << >>
  /\ log = <<>>
  /\ feed = <<>>
  /\ listingsSeen = 0

ExIdle ==
  /\ exScraper = "scrapeACMI"
  /\ exUnits = <<>>
  /\ exResult = NoData

FnIdle ==
  /\ fnName = ""
  /\ fnArg = <<>>
  /\ fnResults = <<>>

Init == MainInit /\ ExIdle /\ FnIdle

\* if (!TMDB_API_KEY) { ...; process.exit(1); }
CheckApiKeySkipped ==
  /\ pc = "start"
  /\ pc' = "launch"
  /\ UNCHANGED <<apiKey, exitCode, browser, dayOffset, scraperIdx, data, sessionIdx,
                 results, days, tmdbCache, log, feed, listingsSeen, exVars, fnVars>>

CheckApiKey ==
  /\ pc = "start"
  /\ IF apiKey THEN pc' = "launch" /\ exitCode' = exitCode
     ELSE pc' = "exited" /\ exitCode' = 1
  /\ UNCHANGED <<apiKey, browser, dayOffset, scraperIdx, data, sessionIdx,
                 results, days, tmdbCache, log, feed, listingsSeen, exVars, fnVars>>

\* puppeteer.launch, browser.newPage, and the start of the loop over the days
LaunchBrowser ==
  /\ pc = "launch"
  /\ browser' = "open"
  /\ pc' = IF 0 < DAYS_TO_SCRAPE THEN "scrape" ELSE "close"
  /\ dayOffset' = 0
  /\ scraperIdx' = 1
  /\ results' = <<>>
  /\ days' = <<>>
  /\ UNCHANGED <<apiKey, exitCode, data, sessionIdx, tmdbCache, log, feed,
                 listingsSeen, exVars, fnVars>>

\* const data = await scraper(page, targetDate), on whatever the venue serves
Scrape ==
  /\ pc = "scrape"
  /\ \E source \in RunSources(scrapers[scraperIdx], dayOffset,
                                MaxListings - listingsSeen) :
       /\ data' = runScraper(scrapers[scraperIdx], source, getMelbourneDateStr(dayOffset))
       /\ listingsSeen' = listingsSeen + Listings(source)
  /\ sessionIdx' = 1
  /\ log' = Append(log, [type |-> "scrape", scraper |-> scrapers[scraperIdx],
                         dayOffset |-> dayOffset])
  /\ pc' = "enrich"
  /\ UNCHANGED <<apiKey, exitCode, browser, dayOffset, scraperIdx, results, days,
                 tmdbCache, feed, exVars, fnVars>>

\* the next scraper of the day, or the end of the day
NextScraper ==
  IF scraperIdx < Len(scrapers)
  THEN scraperIdx' = scraperIdx + 1 /\ pc' = "scrape"
  ELSE scraperIdx' = scraperIdx /\ pc' = "endDay"

\* one iteration of the loop of enrichWithTMDB, when the service answers a
\* lookup with one of answerSet
EnrichWith(answerSet) ==
  /\ pc = "enrich"
  /\ sessionIdx <= Len(data.sessions)
  /\ \E answers \in [1..Len(lookupTitles(data.sessions[sessionIdx])) -> answerSet] :
     \E r \in {enrichSession(data.sessions[sessionIdx], tmdbCache, answers)} :
       /\ ~r.threw
       /\ data' = [data EXCEPT !.sessions[sessionIdx] = r.session]
       /\ tmdbCache' = r.cache
       /\ log' = log \o r.events
  /\ sessionIdx' = sessionIdx + 1
  /\ UNCHANGED <<apiKey, pc, exitCode, browser, dayOffset, scraperIdx, results, days,
                 feed, listingsSeen, exVars, fnVars>>

EnrichSession == EnrichWith(Answers)

\* the loop of main without its try and catch: what enrichWithTMDB throws
\* reaches main().catch, which ends the process with exit code 1
EnrichThrowsAborts ==
  /\ pc = "enrich"
  /\ sessionIdx <= Len(data.sessions)
  /\ \E answers \in [1..Len(lookupTitles(data.sessions[sessionIdx])) -> Answers] :
     \E r \in {enrichSession(data.sessions[sessionIdx], tmdbCache, answers)} :
       /\ r.threw
       /\ tmdbCache' = r.cache
       /\ log' = log \o r.events
  /\ pc' = "exited"
  /\ exitCode' = 1
  /\ UNCHANGED <<apiKey, browser, dayOffset, scraperIdx, data, sessionIdx, results,
                 days, feed, listingsSeen, exVars, fnVars>>

\* enrichWithTMDB throws, and main's catch logs "Scraper failed" and goes on
\* with the next scraper: nothing is pushed to results
EnrichThrows ==
  /\ pc = "enrich"
  /\ sessionIdx <= Len(data.sessions)
  /\ \E answers \in [1..Len(lookupTitles(data.sessions[sessionIdx])) -> Answers] :
     \E r \in {enrichSession(data.sessions[sessionIdx], tmdbCache, answers)} :
       /\ r.threw
       /\ tmdbCache' = r.cache
       /\ log' = log \o r.events
  /\ data' = NoData
  /\ sessionIdx' = 1
  /\ NextScraper
  /\ UNCHANGED <<apiKey, exitCode, browser, dayOffset, results, days, feed,
                 listingsSeen, exVars, fnVars>>

\* results.push(enriched)
PushResult ==
  /\ pc = "enrich"
  /\ sessionIdx > Len(data.sessions)
  /\ results' = Append(results, data)
  /\ data' = NoData
  /\ sessionIdx' = 1
  /\ NextScraper
  /\ UNCHANGED <<apiKey, exitCode, browser, dayOffset, days, tmdbCache, log, feed,
                 listingsSeen, exVars, fnVars>>

\* days.unshift instead of days.push: the newest day comes first
EndDayNewestFirst ==
  /\ pc = "endDay"
  /\ days' = <<[date |-> getDisplayDate(dayOffset),
                dateKey |-> getMelbourneDateStr(dayOffset),
                cinemas |-> results]>> \o days
  /\ dayOffset' = dayOffset + 1
  /\ results' = <<>>
  /\ scraperIdx' = 1
  /\ pc' = IF dayOffset + 1 < DAYS_TO_SCRAPE THEN "scrape" ELSE "close"
  /\ UNCHANGED <<apiKey, exitCode, browser, data, sessionIdx, tmdbCache, log, feed,
                 listingsSeen, exVars, fnVars>>

\* days.push({ date, dateKey, cinemas: results }) and the next day
EndDay ==
  /\ pc = "endDay"
  /\ days' = Append(days, [date |-> getDisplayDate(dayOffset),
                           dateKey |-> getMelbourneDateStr(dayOffset),
                           cinemas |-> results])
  /\ dayOffset' = dayOffset + 1
  /\ results' = <<>>
  /\ scraperIdx' = 1
  /\ pc' = IF dayOffset + 1 < DAYS_TO_SCRAPE THEN "scrape" ELSE "close"
  /\ UNCHANGED <<apiKey, exitCode, browser, data, sessionIdx, tmdbCache, log, feed,
                 listingsSeen, exVars, fnVars>>

\* await browser.close()
CloseBrowser ==
  /\ pc = "close"
  /\ browser' = "closed"
  /\ pc' = "write"
  /\ UNCHANGED <<apiKey, exitCode, dayOffset, scraperIdx, data, sessionIdx, results,
                 days, tmdbCache, log, feed, listingsSeen, exVars, fnVars>>

\* fs.writeFileSync(sessions.json), the summary, and the end of the process
WriteFeed ==
  /\ pc = "write"
  /\ feed' = Append(feed, [days |-> days])
  /\ pc' = "done"
  /\ exitCode' = 0
  /\ UNCHANGED <<apiKey, browser, dayOffset, scraperIdx, data, sessionIdx, results,
                 days, tmdbCache, log, listingsSeen, exVars, fnVars>>

Next ==
  \/ CheckApiKey
  \/ LaunchBrowser
  \/ Scrape
  \/ EnrichSession
  \/ EnrichThrows
  \/ PushResult
  \/ EndDay
  \/ CloseBrowser
  \/ WriteFeed

Spec == Init /\ [][Next]_vars

\* the steps of main outside the loop of enrichWithTMDB
MainSteps ==
  CheckApiKey \/ LaunchBrowser \/ Scrape \/ PushResult \/ EndDay \/ CloseBrowser
    \/ WriteFeed

\* the loop of enrichWithTMDB gets to its next session: an iteration is enabled
\* whenever a session is left, and it either gets there or throws out of the loop
NextSession ==
  /\ pc = "enrich"
  /\ sessionIdx <= Len(data.sessions)
  /\ sessionIdx' = sessionIdx + 1

\* The run when every awaited call settles, by returning or by failing: main
\* awaits one call at a time, so the step that is waiting is taken
SpecLive ==
  Init /\ [][Next]_vars /\ WF_vars(MainSteps) /\ WF_sessionIdx(NextSession)

(***************************************************************************)
(* One extraction on its own: a scraper on the listing units its venue     *)
(* serves for the day of the run                                           *)
(***************************************************************************)

T1400 == <<"1","4",":","0","0">>

T1630 == <<"1","6",":","3","0">>

T1900 == <<"1","9",":","0","0">>

\* the ACMI API's items: two of a film, one of another, a JSON null, and one
\* without a title
AcmiUnits ==
  { AcmiItem(Up, 0),
    [AcmiItem(Up, 0) EXCEPT !.start_datetime = IsoDateTime(0, 19, 30)],
    AcmiItem(Ran, 0),
    NoMovie,
    AcmiItem(Null, 0),
    AcmiItem(Up, 1),
    [AcmiItem(Ran, 0) EXCEPT !.eventType = "Talk"],
    [AcmiItem(Ran, 0) EXCEPT !.eventType = "", !.start_datetime = Null] }

\* the Astor page's blocks: two of a film, one of another, a double feature,
\* one without a film link, one that says "double feature" and links one film
\* twice, one of tomorrow, and one of tomorrow whose text also holds the word
\* "today"
AstorUnits ==
  { AstorBlock(<<AstorLink(Up)>>, FALSE, <<"2","p","m">>, 0),
    AstorBlock(<<AstorLink(Up)>>, FALSE, <<"7",":","3","0","p","m">>, 0),
    AstorBlock(<<AstorLink(Ran)>>, FALSE, <<"7","p","m">>, 0),
    AstorBlock(<<AstorLink(Up), AstorLink(Ran)>>, TRUE, <<"9","p","m">>, 0),
    AstorBlock(<<>>, FALSE, <<"2","p","m">>, 0),
    AstorBlock(<<AstorLink(Up), AstorLink(Up \o <<" ","[","M","]">>)>>, TRUE,
               <<"9","p","m">>, 0),
    AstorBlock(<<AstorLink(Ran)>>, FALSE, <<"6","p","m">>, 1),
    [AstorBlock(<<AstorLink(Ran)>>, FALSE, <<"6","p","m">>, 1)
       EXCEPT !.words = {"today", "tomorrow"}] }

\* the Brunswick page's cards: two of a film, one of another, one without a
\* title, and one whose time does not read as a time
BrunswickUnits ==
  { [title |-> Up, buttons |-> << <<"2",":","0","0"," ","P","M">> >>],
    [title |-> Up, buttons |-> << <<"7",":","3","0"," ","P","M">> >>],
    [title |-> Ran, buttons |-> << <<"4",":","3","0"," ","P","M">>, Null >>],
    [title |-> Null, buttons |-> << <<"2",":","0","0"," ","P","M">> >>],
    [title |-> Ran, buttons |-> << <<"s","o","o","n">> >>] }

EclipseEntry(title, time) ==
  [dates |-> {eclipseDateStr(getMelbourneDateStr(0))}, title |-> title,
   links |-> <<[date |-> eclipseDateStr(getMelbourneDateStr(0)), text |-> time]>>]

\* the Eclipse page's entries, alike
EclipseUnits ==
  { EclipseEntry(Up, T1400), EclipseEntry(Up, T1900), EclipseEntry(Ran, T1630),
    EclipseEntry(Null, T1400), EclipseEntry(Ran, <<"7","p","m">>) }

\* the rows of the Nova page, alike
NovaUnits ==
  { [cells |-> 2, time |-> T1400, title |-> Up],
    [cells |-> 2, time |-> T1900, title |-> Up],
    [cells |-> 2, time |-> T1630, title |-> Ran],
    [cells |-> 2, time |-> T1400, title |-> Null],
    [cells |-> 1, time |-> Null, title |-> Null] }

PalaceId == <<"1","5","5">>

PalaceMovie(title, hh, mm) ==
  [json |-> "object", title |-> title, slug |-> toLowerCase(title),
   sessions |-> <<[date |-> IsoDateTime(0, hh, mm), cinemaId |-> PalaceId]>>]

\* the movies of a Palace page's data: two of a film, one of another, a JSON
\* null, and one without a title
PalaceUnits ==
  { PalaceMovie(Up, 14, 0), PalaceMovie(Up, 19, 0), PalaceMovie(Ran, 16, 30),
    NoMovie, PalaceMovie(Null, 14, 0) }

PalaceScrapers ==
  {"scrapePalaceComo", "scrapePalaceKino", "scrapePalaceWestgarth", "scrapePentridge"}

\* the listing units the venue of a scraper can serve
Units(name) ==
  CASE name = "scrapeACMI" -> AcmiUnits
    [] name = "scrapeAstor" -> AstorUnits
    [] name = "scrapeBrunswickPictureHouse" -> BrunswickUnits
    [] name = "scrapeEclipse" -> EclipseUnits
    [] name = "scrapeCinemaNova" -> NovaUnits
    [] name \in PalaceScrapers -> PalaceUnits
    [] OTHER -> {}

\* the source that holds these units for today and nothing else
SourceOf(name, units) ==
  CASE name = "scrapeACMI" -> [Empty EXCEPT !.items = units]
    [] name = "scrapeAstor" -> [Empty EXCEPT !.blocks = units]
    [] name = "scrapeBrunswickPictureHouse" ->
         [Empty EXCEPT !.sections =
            <<[words |-> {"today"}, posterList |-> TRUE, cards |-> units]>>]
    [] name = "scrapeEclipse" -> [Empty EXCEPT !.entries = units]
    [] name = "scrapeCinemaNova" -> [Empty EXCEPT !.rows = units]
    [] name \in PalaceScrapers ->
         [Empty EXCEPT !.movies = units, !.pageCinemaId = PalaceId]
    [] OTHER -> Empty

\* what the scraper returns on these units
extract(name, units) == runScraper(name, SourceOf(name, units), getMelbourneDateStr(0))

ExtractInit ==
  /\ MainInit
  /\ apiKey = TRUE
  /\ exScraper \in { scrapers[i] : i \in 1..Len(scrapers) }
  /\ exUnits \in SeqUpTo(Units(exScraper), MaxUnits)
  /\ exResult = NoData
  /\ FnIdle

\* const data = await scraper(page, targetDate)
Extract ==
  /\ exResult = NoData
  /\ exResult' = extract(exScraper, exUnits)
  /\ UNCHANGED <<mainVars, exScraper, exUnits, fnVars>>

ExtractNext == Extract

SpecExtract == ExtractInit /\ [][ExtractNext]_vars

(***************************************************************************)
(* One venue of a run: the extraction of what the venue serves for today   *)
(* and its enrichment, the earlier venues of the list having been out of   *)
(* reach                                                                   *)
(***************************************************************************)

MovieXTitle == <<"M","o","v","i","e"," ","X">>

UpPlusRan == Up \o Plus \o Ran

UpAndRan == Up \o Ampersand \o Ran

T1435 == <<"1","4",":","3","5">>

T230PM == <<"2",":","3","0"," ","P","M">>

\* what the search can answer with: films rated 6.0, 8.0 and 7.5
MovieSix ==
  [json |-> "object", id |-> Num(21), title |-> Up, overview |-> <<"An old man flies.">>,
   poster_path |-> <<"/six.jpg">>, vote_average |-> Num(120),
   release_date |-> <<"2","0","0","9","-","0","5","-","2","9">>]

MovieEight ==
  [json |-> "object", id |-> Num(22), title |-> Ran, overview |-> <<"A king divides.">>,
   poster_path |-> <<"/eight.jpg">>, vote_average |-> Num(160),
   release_date |-> <<"1","9","8","5","-","0","6","-","0","1">>]

MovieX ==
  [json |-> "object", id |-> Num(23), title |-> MovieXTitle, overview |-> Null,
   poster_path |-> Null, vote_average |-> Num(150),
   release_date |-> <<"2","0","2","4","-","0","3","-","0","7">>]

\* what the detail request can answer with: no runtime and no videos, or 90
\* minutes and a trailer
DetailNone == [kind |-> "ok", runtime |-> Null, videos |-> <<>>]

DetailNinety ==
  [kind |-> "ok", runtime |-> Num(90),
   videos |-> << [site |-> "YouTube", type |-> "Trailer", key |-> <<"y9">>] >>]

VenueAnswers ==
  { [search |-> [kind |-> "ok", results |-> <<>>], detail |-> DetailNone] }
  \cup [search : { [kind |-> "ok", results |-> <<m>>] :
                     m \in {MovieSix, MovieEight, MovieX, MovieBare} },
        detail : {DetailNone, DetailNinety}]

\* What the venues serve.  ACMI: a film, and films whose titles hold a
\* separator.  Astor: a film, a double feature, and a film without a time.
\* Brunswick: a film with two times.  Eclipse: two films.  Nova: a film in two
\* rows, one with a 12-hour time.  Palace: a film, and a film whose session
\* date has no time of day.
VenueUnits(name) ==
  CASE name = "scrapeACMI" ->
         { AcmiItem(Up, 0), AcmiItem(UpPlusRan, 0), AcmiItem(UpAndRan, 0) }
    [] name = "scrapeAstor" ->
         { AstorBlock(<<AstorLink(Up)>>, FALSE, <<"2","p","m">>, 0),
           AstorBlock(<<AstorLink(Up), AstorLink(Ran)>>, TRUE, <<"9","p","m">>, 0),
           AstorBlock(<<AstorLink(Ran)>>, FALSE, Null, 0) }
    [] name = "scrapeBrunswickPictureHouse" ->
         { [title |-> Up,
            buttons |-> << <<"2",":","0","0"," ","P","M">>,
                           <<"1","1",":","1","5"," ","a","m">> >>] }
    [] name = "scrapeEclipse" ->
         { EclipseEntry(Up, T1400), EclipseEntry(Ran, <<"9",":","0","5">>) }
    [] name = "scrapeCinemaNova" ->
         { [cells |-> 2, time |-> T230PM, title |-> MovieXTitle],
           [cells |-> 2, time |-> T1435, title |-> MovieXTitle] }
    [] name = "scrapePalaceComo" ->
         { PalaceMovie(Up, 14, 0),
           [PalaceMovie(Ran, 0, 0) EXCEPT
              !.sessions = <<[date |-> getMelbourneDateStr(0), cinemaId |-> PalaceId]>>] }
    [] OTHER -> {}

\* the venues with units, and Hoyts, whose result carries a note
VenueScrapers ==
  { i \in 1..Len(scrapers) : VenueUnits(scrapers[i]) # {} \/ scrapers[i] = "scrapeHoyts" }

VenueInit ==
  /\ apiKey = TRUE
  /\ pc = "scrape"
  /\ exitCode = -1
  /\ browser = "open"
  /\ dayOffset = 0
  /\ scraperIdx \in VenueScrapers
  /\ data = NoData
  /\ sessionIdx = 1
  /\ results = [i \in 1..(scraperIdx - 1) |->
                  runScraper(scrapers[i], Unreachable, getMelbourneDateStr(0))]
  /\ days = <<>>
  /\ tmdbCache = << >>
  /\ log = [i \in 1..(scraperIdx - 1) |->
              [type |-> "scrape", scraper |-> scrapers[i], dayOffset |-> 0]]
  /\ feed = <<>>
  /\ listingsSeen = 0
  /\ exScraper = scrapers[scraperIdx]
  /\ exUnits \in SeqUpTo(VenueUnits(exScraper), MaxUnits)
  /\ exResult = NoData
  /\ FnIdle

\* const data = await scraper(page, targetDate), on the units the venue serves;
\* exResult keeps what the scraper returned
ScrapeVenue ==
  /\ pc = "scrape"
  /\ exResult = NoData
  /\ \E r \in {extract(exScraper, exUnits)} :
       data' = r /\ exResult' = r
  /\ sessionIdx' = 1
  /\ log' = Append(log, [type |-> "scrape", scraper |-> scrapers[scraperIdx],
                         dayOffset |-> dayOffset])
  /\ pc' = "enrich"
  /\ UNCHANGED <<apiKey, exitCode, browser, dayOffset, scraperIdx, results, days,
                 tmdbCache, feed, listingsSeen, exScraper, exUnits,
                 fnVars>>

EnrichVenue == EnrichWith(VenueAnswers)

VenueNext ==
  \/ ScrapeVenue
  \/ EnrichVenue
  \/ PushResult

SpecVenue == VenueInit /\ [][VenueNext]_vars

(***************************************************************************)
(* One function on its own: standardiseTime on a raw time, or the title    *)
(* canonicalisation of fetchTMDB on a raw title, applied to a string and   *)
(* then to its own result                                                  *)
(***************************************************************************)

\* how often the function is applied in a row
MaxApplications == 2

\* the hours the raw times are written with: as numbers, and zero-padded
HourTexts ==
  { NumToChars(h) : h \in {0, 1, 2, 9, 10, 11, 12, 13, 14, 23, 24, 25} }
    \cup { padStart2(NumToChars(h)) : h \in {0, 2, 9} }

MinuteTexts == { <<"0","0">>,
    <<"0","5">>,
    <<"3","0">>,
    <<"5","9">> }

MeridiemTexts == { <<"a","m">>,
    <<"p","m">>,
    <<"A","M">>,
    <<"P","M">> }

\* the whitespace between the time and its meridiem
GapTexts == { <<>>, <<" ">>, <<" ", " ">> }

\* strings that are no time of an accepted format, and sentinels
OtherTimeTexts ==
  { <<>>,
    <<"S","e","e"," ","w","e","b","s","i","t","e">>,
    <<"S","E","E"," ","W","E","B","S","I","T","E">>,
    <<"S","o","l","d"," ","o","u","t"," ","-"," ","s","e","e"," ","w","e","b","s","i","t","e">>,
    <<"s","o","o","n">>,
    <<"7",".","3","0","p","m">>,
    <<"2",":","5","p","m">>,
    <<" ","2",":","3","0","p","m">>,
    <<"1","4">>,
    <<"1","2","3",":","0","0">>,
    <<"2",":","3","0"," ","p",".","m",".">>,
    <<"2",":","3","0","p","m"," ">> }

\* the raw times: H:MM with a meridiem, H with a meridiem, 24-hour HH:MM, others
TimeInputs ==
  { h \o <<":">> \o m \o g \o p :
      h \in HourTexts, m \in MinuteTexts, g \in GapTexts, p \in MeridiemTexts }
    \cup { h \o g \o p : h \in HourTexts, g \in GapTexts, p \in MeridiemTexts }
    \cup { h \o <<":">> \o m : h \in HourTexts, m \in MinuteTexts }
    \cup OtherTimeTexts

\* raw titles: plain ones, ones with a trailing article, with format tags, with
\* qualifiers after a dash, and ones that hold a qualifier word without a dash
TitleInputs ==
  { <<"U","p">>,
    <<"J","a","w","s">>,
    <<"B","r","e","a","t","h","e">>,
    <<"H","o","u","s","e","m","a","i","d",","," ","T","h","e">>,
    <<"H","o","u","s","e","m","a","i","d",","," ","t","h","e">>,
    <<"H","o","u","s","e","m","a","i","d",",","T","h","e">>,
    <<"H","o","u","s","e","m","a","i","d"," ","3","D",","," ","T","h","e">>,
    <<"J","a","w","s"," ","3","D">>,
    <<"I","M","A","X"," ","J","a","w","s">>,
    <<"J","a","w","s"," ","3","D"," ","-"," ","5","0","t","h"," ","A","n","n","i","v","e","r","s","a","r","y"," ","R","e","s","t","o","r","a","t","i","o","n">>,
    <<"J","a","w","s"," ","-"," ","2","5","t","h"," ","A","n","n","i","v","e","r","s","a","r","y">>,
    <<"J","a","w","s"," ","&ndash;"," ","5","0","t","h"," ","A","n","n","i","v","e","r","s","a","r","y"," ","4","K"," ","R","e","s","t","o","r","a","t","i","o","n">>,
    <<"J","a","w","s"," ","-"," ","4","K"," ","R","e","s","t","o","r","a","t","i","o","n">>,
    <<"J","a","w","s"," ","-"," ","R","e","m","a","s","t","e","r","e","d">>,
    <<"J","a","w","s"," ","-"," ","R","e","-","r","e","l","e","a","s","e">>,
    <<"J","a","w","s"," ","-"," ","3","D">>,
    <<"J","a","w","s"," ","-"," ","3","D"," ","-"," ","I","M","A","X">>,
    <<"J","a","w","s"," ","(","3","D",")">>,
    <<"J","a","w","s"," ","(","1","9","7","5",")">>,
    <<"R","e","s","t","o","r","a","t","i","o","n">>,
    <<"T","h","e"," ","R","e","s","t","o","r","a","t","i","o","n">>,
    <<"T","h","e"," ","R","e","s","t","o","r","a","t","i","o","n"," ","o","f"," ","H","o","p","e">>,
    <<"R","e","m","a","s","t","e","r"," ","C","l","a","s","s">> }

FunctionInit ==
  /\ MainInit
  /\ apiKey = TRUE
  /\ ExIdle
  /\ \/ fnName = "standardiseTime" /\ fnArg \in TimeInputs
     \/ fnName = "cleanTitle" /\ fnArg \in TitleInputs
  /\ fnResults = <<>>

\* what the function is applied to next: the string, or its own last result
NextArgument == IF fnResults = <<>> THEN fnArg ELSE fnResults[Len(fnResults)]

\* standardiseTime(t)
StandardiseTime ==
  /\ fnName = "standardiseTime"
  /\ Len(fnResults) < MaxApplications
  /\ fnResults' = Append(fnResults, standardiseTime(NextArgument))
  /\ UNCHANGED <<mainVars, exVars, fnName, fnArg>>

\* the query fetchTMDB builds from the title
CleanTitle ==
  /\ fnName = "cleanTitle"
  /\ Len(fnResults) < MaxApplications
  /\ fnResults' = Append(fnResults, cleanTitle(NextArgument))
  /\ UNCHANGED <<mainVars, exVars, fnName, fnArg>>

FunctionNext ==
  \/ StandardiseTime
  \/ CleanTitle

SpecFunction == FunctionInit /\ [][FunctionNext]_vars

(***************************************************************************)
(* The claims                                                              *)
(***************************************************************************)

\* the returns of fetchTMDB in the trace
Returns == { i \in 1..Len(log) : log[i].type = "return" }

\* the calls of fetchTMDB in the trace
Calls == { i \in 1..Len(log) : log[i].type = "call" }

\* the search requests in the trace
Searches == { i \in 1..Len(log) : log[i].type = "search" }

\* the returns of lookups whose search failed or found nothing
FailedReturns == { i \in Returns : log[i].search \in {"failed", "noResults"} }

\* the sessions of the run that enrichWithTMDB is through with
RECURSIVE Flatten(_)
Flatten(seqs) == IF Len(seqs) = 0 THEN <<>> ELSE seqs[1] \o Flatten(Tail(seqs))

VenueResults ==
  Flatten([d \in 1..Len(days) |-> days[d].cinemas]) \o results

EnrichedSessions ==
  Flatten([v \in 1..Len(VenueResults) |-> VenueResults[v].sessions])
    \o SubSeq(data.sessions, 1, sessionIdx - 1)

\* the elements of a sequence
Range(seq) == { seq[k] : k \in 1..Len(seq) }

\* the session carries the fields of the lookup result
Carries(session, result) ==
  /\ session.overview = result.overview
  /\ session.posterPath = result.posterPath
  /\ session.rating = result.rating
  /\ session.year = result.year
  /\ session.runtime = result.runtime
  /\ session.trailerUrl = result.trailerUrl

\* C1: over one run the search endpoint is requested at most once per
\* canonicalized-lowercased title: no two search requests of the trace carry
\* the same query, letter case aside.
C1_OneSearchPerCanonicalTitle ==
  \A i, j \in Searches :
    i < j => toLowerCase(log[i].query) # toLowerCase(log[j].query)

\* C2: fetchTMDB never raises for a title that is a string; when its search
\* fails or finds nothing it returns the fallback record, all of whose fields
\* are null; and every ordinary session enriched in the run, before or after
\* such a lookup, carries the fields of the result its own lookup returned.
C2_LookupNeverRaises ==
  /\ \A i \in Returns : IsString(log[i].title) => ~log[i].threw
  /\ \A i \in FailedReturns :
       /\ log[i].result = fallback
       /\ \A f \in DOMAIN log[i].result : log[i].result[f] = Null
  /\ \A s \in Range(EnrichedSessions) :
       ~isDoubleFeature(s) =>
         /\ \E i \in Returns : log[i].title = s.title
         /\ \A i \in Returns : log[i].title = s.title => Carries(s, log[i].result)

\* a lookup fails, and a later lookup of the run matches and its session
\* carries the match
C2_FailureThenMatch ==
  \E i \in FailedReturns : \E j \in Returns :
    /\ i < j
    /\ log[j].search = "match"
    /\ log[j].result.tmdbId = log[j].movie.id
    /\ \E s \in Range(EnrichedSessions) :
         s.title = log[j].title /\ Carries(s, log[j].result)

\* C3: the sessions an extractor returns hold no title twice.
C3_TitlesUnique ==
  \A i, j \in 1..Len(exResult.sessions) :
    i # j => exResult.sessions[i].title # exResult.sessions[j].title

\* the times of the session, if it has the title
timesOf(sessions, title) ==
  IF Len(sessions) = 1 /\ sessions[1].title = title THEN sessions[1].times ELSE <<>>

\* the times of the listing units of a title, unit by unit: what the scraper
\* returns for each unit on its own
RECURSIVE unitTimes(_, _, _)
unitTimes(name, units, title) ==
  IF Len(units) = 0 THEN <<>>
  ELSE timesOf(extract(name, <<units[1]>>).sessions, title)
         \o unitTimes(name, Tail(units), title)

\* C4: when the source holds several listing units of a title, the session of
\* that title holds the times of all of them, in the order of the units.
C4_TimesMerged ==
  \A k \in 1..Len(exResult.sessions) :
    exResult.sessions[k].times
      = unitTimes(exScraper, exUnits, exResult.sessions[k].title)

\* C5: every DayResult holds a VenueResult for every configured venue, whatever
\* failed: the venue of a scraper whose run reached the catch of main included.
C5_EveryVenuePresent ==
  \A d \in 1..Len(days) :
    /\ Len(days[d].cinemas) = Len(scrapers)
    /\ \A k \in 1..Len(scrapers) :
         days[d].cinemas[k].cinema = runScraper(scrapers[k], Unreachable, getMelbourneDateStr(d - 1)).cinema

\* C6: a title whose lookup failed or found nothing is cached as the fallback,
\* and every later call of fetchTMDB with the same lowercased and trimmed title
\* returns the fallback at once, with no search request.
C6_FailureCached ==
  \A i \in FailedReturns :
    /\ cacheKey(log[i].title) \in DOMAIN tmdbCache
    /\ tmdbCache[cacheKey(log[i].title)] = fallback
    /\ \A j \in Returns :
         (i < j /\ IsString(log[j].title)
            /\ cacheKey(log[j].title) = cacheKey(log[i].title)) =>
           /\ log[j].result = fallback
           /\ log[j - 1].type = "call"

\* a failed lookup, and a later call with the same key
C6_FailedThenAskedAgain ==
  \E i \in FailedReturns : \E j \in Returns :
    /\ i < j
    /\ IsString(log[j].title)
    /\ cacheKey(log[j].title) = cacheKey(log[i].title)
    /\ log[j].result = fallback

\* C7 as stated: no delay follows a call of fetchTMDB that the cache answered.
C7_NoDelayAfterHit ==
  \A i \in Calls :
    (log[i].cached /\ i + 2 <= Len(log)) => log[i + 2].type # "delay"

\* C7 amended: a call of fetchTMDB that the cache answers returns the cached
\* record with no request and no delay of its own, and the 250 ms delay of
\* enrichWithTMDB follows it as it follows every call.
C7_HitSkipsRequestNotDelay ==
  \A i \in Calls :
    log[i].cached =>
      /\ i + 2 <= Len(log)
      /\ log[i + 1].type = "return"
      /\ log[i + 1].title = log[i].title
      /\ log[i + 1].result = tmdbCache[cacheKey(log[i].title)]
      /\ log[i + 2] = Delay250

\* a call that the cache answered
C7_CacheHit ==
  \E i \in Calls :
    /\ log[i].cached
    /\ i + 2 <= Len(log)
    /\ log[i + 1].type = "return"
    /\ log[i + 2].type = "delay"

\* the returns of lookups whose search matched and whose detail request failed
DetailFailedReturns ==
  { i \in Returns : log[i].search = "match" /\ log[i].detail = "failed" }

\* C8: when the search matches and the detail request fails, fetchTMDB returns
\* overview, posterPath, rating, year and tmdbId of the match with runtime and
\* trailerUrl null, and the cache holds that record.
C8_DetailFailureKeepsMatch ==
  \A i \in DetailFailedReturns :
    /\ log[i].result.tmdbId = log[i].movie.id
    /\ log[i].result.overview = OrNull(log[i].movie.overview)
    /\ log[i].result.rating = OrNull(log[i].movie.vote_average)
    /\ Truthy(log[i].movie.poster_path) =>
         log[i].result.posterPath
           = <<"https://image.tmdb.org/t/p/w300">> \o log[i].movie.poster_path
    /\ Truthy(log[i].movie.release_date) =>
         log[i].result.year = SubSeq(log[i].movie.release_date, 1, 4)
    /\ log[i].result.runtime = Null
    /\ log[i].result.trailerUrl = Null
    /\ log[i].result # fallback
    /\ tmdbCache[cacheKey(log[i].title)] = log[i].result

\* a match with a poster whose detail request failed
C8_DetailFailed ==
  \E i \in DetailFailedReturns :
    /\ Truthy(log[i].movie.poster_path)
    /\ log[i].result.posterPath # Null

\* whether the scraper returns no session for the unit on its own
malformed(name, unit) == Len(extract(name, <<unit>>).sessions) = 0

\* C9: when one listing unit of the source is malformed, every well-formed
\* unit of the source still has its session in the result.
C9_BadListingSkipped ==
  (/\ exResult.cinema # ""
   /\ Cardinality({ i \in 1..Len(exUnits) : malformed(exScraper, exUnits[i]) }) = 1)
  => \A i \in 1..Len(exUnits) :
       ~malformed(exScraper, exUnits[i]) =>
         \E k \in 1..Len(exResult.sessions) :
           exResult.sessions[k].title
             = extract(exScraper, <<exUnits[i]>>).sessions[1].title

\* C10: with no API key main exits with a status that is not zero, and no
\* browser is launched, no scraper or lookup runs and no feed is written.
C10_NoKeyNoWork ==
  ~apiKey =>
    /\ browser = "none"
    /\ log = <<>>
    /\ feed = <<>>
    /\ days = <<>>
    /\ pc \in {"start", "exited"}
    /\ pc = "exited" => exitCode = 1

\* main has exited for want of the key
C10_ExitedWithoutKey == ~apiKey /\ pc = "exited" /\ exitCode = 1

\* the extractions the run has started
Scrapes == SelectSeq(log, LAMBDA e : e.type = "scrape")

CallsAndReturns == SelectSeq(log, LAMBDA e : e.type \in {"call", "return"})

\* where the extraction under way, or the last one, started in the trace
LastScrape ==
  IF \E i \in 1..Len(log) : log[i].type = "scrape"
  THEN CHOOSE i \in 1..Len(log) :
         log[i].type = "scrape" /\ \A j \in (i + 1)..Len(log) : log[j].type # "scrape"
  ELSE 0

\* the titles fetchTMDB was called with since that extraction
TitlesCalledSince(i) ==
  LET calls == SelectSeq(SubSeq(log, i + 1, Len(log)), LAMBDA e : e.type = "call")
  IN [k \in 1..Len(calls) |-> calls[k].title]

\* the titles enrichWithTMDB looks up for the sessions, in their order
TitlesLookedUp(sessions) ==
  LET titles == Flatten([k \in 1..Len(sessions) |-> lookupTitles(sessions[k])])
  IN [k \in 1..Len(titles) |-> IF IsString(titles[k]) THEN trim(titles[k]) ELSE titles[k]]

\* C12: the run does one thing at a time.  The extractions start in the order
\* of the scraper list within a day and day after day; a call of fetchTMDB has
\* returned before the next call is made, and every request is made inside one
\* call; the lookups made since an extraction started are those of the sessions
\* of that venue that enrichment is through with, in their order.
C12_OneAtATime ==
  /\ \A k \in 1..Len(Scrapes) :
       /\ Scrapes[k].scraper = scrapers[((k - 1) % Len(scrapers)) + 1]
       /\ Scrapes[k].dayOffset = (k - 1) \div Len(scrapers)
  /\ Len(CallsAndReturns) % 2 = 0
  /\ \A k \in 1..Len(CallsAndReturns) :
       IF k % 2 = 1 THEN CallsAndReturns[k].type = "call"
       ELSE /\ CallsAndReturns[k].type = "return"
            /\ CallsAndReturns[k].title = CallsAndReturns[k - 1].title
  /\ \A i \in 1..Len(log) :
       log[i].type \in {"search", "details"} =>
         \E c \in 1..(i - 1) :
           /\ log[c].type = "call"
           /\ \A j \in (c + 1)..(i - 1) : log[j].type \notin {"call", "return", "scrape"}
  /\ pc = "enrich" =>
       TitlesCalledSince(LastScrape) = TitlesLookedUp(SubSeq(data.sessions, 1, sessionIdx - 1))

\* a run in which the two films of a double feature were looked up, at a venue
\* that is not the first of the list
C12_DoubleFeatureLookedUp ==
  /\ pc = "enrich"
  /\ sessionIdx > 1
  /\ "films" \in DOMAIN data.sessions[sessionIdx - 1]
  /\ Len(TitlesCalledSince(LastScrape)) >= 2
  /\ Len(Scrapes) > 1

\* the requests to the metadata service in the trace
Requests == { i \in 1..Len(log) : log[i].type \in {"search", "details"} }

\* the trace holds a delay between its places i and j
DelayBetween(i, j) == \E k \in (i + 1)..(j - 1) : log[k].type = "delay"

\* a detail fetch that succeeded is followed by its delay before fetchTMDB
\* returns
DelayAfterDetails ==
  \A i \in Returns :
    log[i].detail = "ok" => log[i - 1] = [type |-> "delay", ms |-> 100]

PlaceOf(cinema) ==
  CHOOSE i \in 1..Len(scrapers) :
    runScraper(scrapers[i], Unreachable, getMelbourneDateStr(0)).cinema = cinema

\* C14: the feed holds DAYS_TO_SCRAPE day results, for the days from today on
\* in their order, and the venue results of a day stand in the order of the
\* scraper list; the order is fixed by the configuration alone.
C14_FeedInConfiguredOrder ==
  feed # <<>> =>
    /\ Len(feed[1].days) = DAYS_TO_SCRAPE
    /\ \A d \in 1..Len(feed[1].days) :
         /\ feed[1].days[d].dateKey = getMelbourneDateStr(d - 1)
         /\ feed[1].days[d].date = getDisplayDate(d - 1)
         /\ \A v \in 1..Len(feed[1].days[d].cinemas) :
              /\ \E i \in 1..Len(scrapers) :
                   runScraper(scrapers[i], Unreachable, getMelbourneDateStr(0)).cinema
                     = feed[1].days[d].cinemas[v].cinema
              /\ v > 1 => PlaceOf(feed[1].days[d].cinemas[v - 1].cinema)
                            < PlaceOf(feed[1].days[d].cinemas[v].cinema)

\* a feed whose first day holds every venue, and a session on a later day
C14_FeedWithSessions ==
  /\ feed # <<>>
  /\ Len(feed[1].days[1].cinemas) = Len(scrapers)
  /\ \E v \in 1..Len(feed[1].days[2].cinemas) :
       feed[1].days[2].cinemas[v].sessions # <<>>

\* the canonical form of a time: H:MMam or H:MMpm, the hour 1 to 12 without a
\* leading zero, the minutes in two digits
IsCanonicalTime(t) ==
  /\ Len(t) \in {6, 7}
  /\ SubSeq(t, 1, Len(t) - 5) \in { NumToChars(h) : h \in 1..12 }
  /\ t[Len(t) - 4] = ":"
  /\ IsDigit(t[Len(t) - 3])
  /\ IsDigit(t[Len(t) - 2])
  /\ SubSeq(t, Len(t) - 1, Len(t)) \in {<<"a","m">>, <<"p","m">>}

\* the "see website" sentinel, in any letter case
IsSeeWebsite(t) == IncludesText(toLowerCase(t), SeeWebsiteLower)

\* the times a session carries, premium times included
AllTimes(session) ==
  Range(session.times)
    \cup (IF "premiumTimes" \in DOMAIN session THEN Range(session.premiumTimes) ELSE {})

\* C15: every time of every session that enrichment is through with is of
\* the canonical form or is the "see website" sentinel, whatever the venue
\* served.
C15_TimesCanonical ==
  \A s \in Range(EnrichedSessions) :
    \A t \in AllTimes(s) : IsCanonicalTime(t) \/ IsSeeWebsite(t)

\* the session the loop of enrichWithTMDB has just left, as the scraper
\* returned it and as enrichment left it
JustEnriched == pc = "enrich" /\ sessionIdx > 1

RawSession == exResult.sessions[sessionIdx - 1]

Enriched == data.sessions[sessionIdx - 1]

\* the last n returns of fetchTMDB in the trace
LastReturns(n) ==
  LET rets == SelectSeq(log, LAMBDA e : e.type = "return")
  IN SubSeq(rets, Len(rets) - n + 1, Len(rets))

\* the rating of a double feature: the mean of the two when both are present,
\* the one that is present, null when none is; ratings are in twentieths
MeanRating(r1, r2) ==
  IF r1 # Null /\ r2 # Null THEN Num((Val(r1) + Val(r2)) \div 2)
  ELSE IF r1 # Null THEN r1
  ELSE r2

\* the session holds a film for each of the two titles, in their order, each
\* with the result of its own lookup, and the rating is that of the two
HoldsBothFilms(session, titles, rets) ==
  /\ Len(session.films) = 2
  /\ \A k \in 1..2 :
       /\ rets[k].title = titles[k]
       /\ session.films[k] = Assign(rets[k].result, "title", titles[k])
  /\ session.rating = MeanRating(rets[1].result.rating, rets[2].result.rating)

\* C16: a double feature "A + B" leaves enrichment with two films, for A and
\* for B in that order, each holding the result of its own lookup; its rating
\* is the mean of the two ratings when both are present, the one present when
\* one is, and null when none is.
C16_DoubleFeatureFilmsAndRating ==
  (JustEnriched /\ "isDoubleFeature" \in DOMAIN RawSession
     /\ RawSession.isDoubleFeature /\ Len(Split(RawSession.title, Plus)) = 2) =>
    HoldsBothFilms(Enriched, Split(RawSession.title, Plus), LastReturns(2))

\* a double feature of films rated 6.0 and 8.0 is rated 7.0
C16_SixAndEightGiveSeven ==
  /\ JustEnriched
  /\ "films" \in DOMAIN Enriched
  /\ Enriched.films[1].rating = Num(120)
  /\ Enriched.films[2].rating = Num(160)
  /\ Enriched.rating = Num(140)

\* the runtimes that are present, summed; null when none is
SumRuntime(r1, r2) ==
  IF r1 = Null /\ r2 = Null THEN Null
  ELSE Num((IF r1 = Null THEN 0 ELSE Val(r1)) + (IF r2 = Null THEN 0 ELSE Val(r2)))

\* the runtime of the session is that of the two lookups
HoldsSumRuntime(session, rets) ==
  session.runtime = SumRuntime(rets[1].result.runtime, rets[2].result.runtime)

\* C17: the runtime of a double feature is the sum of its films' runtimes that
\* are present: the sum of both, the one that is present, null when none is.
C17_DoubleFeatureRuntime ==
  (JustEnriched /\ "films" \in DOMAIN Enriched /\ Len(Enriched.films) = 2) =>
    HoldsSumRuntime(Enriched, LastReturns(2))

\* a double feature of a film of 90 minutes and a film without a runtime
C17_NinetyAndAbsentGiveNinety ==
  /\ JustEnriched
  /\ "films" \in DOMAIN Enriched
  /\ Enriched.films[1].runtime = Num(90)
  /\ Enriched.films[2].runtime = Null
  /\ Enriched.runtime = Num(90)

\* the field of a session, null when the session does not carry it
FieldOrNull(session, field) ==
  IF field \in DOMAIN session THEN session[field] ELSE Null

\* the first value when it is not null, otherwise the second
FirstNonNull(v1, v2) == IF v1 # Null THEN v1 ELSE v2

\* the field of the session is the first film's, or else the second film's
FromFirstElseSecond(session, field) ==
  FieldOrNull(session, field)
    = FirstNonNull(session.films[1][field], session.films[2][field])

\* C18: the posterPath, the overview and the trailerUrl of a double feature
\* are each the first film's value when that is not null, otherwise the second
\* film's, otherwise null; its year is the first film's year.
C18_FirstElseSecond ==
  (JustEnriched /\ "films" \in DOMAIN Enriched /\ Len(Enriched.films) = 2) =>
    /\ FromFirstElseSecond(Enriched, "posterPath")
    /\ FromFirstElseSecond(Enriched, "overview")
    /\ FromFirstElseSecond(Enriched, "trailerUrl")
    /\ Enriched.year = Enriched.films[1].year

\* the session is flagged as a double feature
Flagged(session) == "isDoubleFeature" \in DOMAIN session /\ session.isDoubleFeature

\* C19: a session that enrichment is through with carries films only if it
\* is flagged as a double feature, whatever its title holds, and every session
\* flagged as a double feature carries at least two films.
C19_FilmsIffDoubleFeature ==
  \A s \in Range(EnrichedSessions) :
    /\ "films" \in DOMAIN s => Flagged(s)
    /\ Flagged(s) => "films" \in DOMAIN s /\ Len(s.films) >= 2

\* a session without the flag whose title holds " + " went through enrichment
C19_SeparatorWithoutFlag ==
  \E s \in Range(EnrichedSessions) :
    /\ ~Flagged(s)
    /\ IncludesText(s.title, Plus)
    /\ "rating" \in DOMAIN s
    /\ "films" \notin DOMAIN s

\* the venue of the run is through: its result is pushed
VenuePushed == pc = "scrape" /\ exResult.cinema # ""

\* Nova served the film "Movie X" in two rows, at "2:30 PM" and at "14:35",
\* and the service answered its lookup with the match rated 7.5, of 2024,
\* without runtime and without trailer
MovieXScenario ==
  /\ VenuePushed
  /\ exScraper = "scrapeCinemaNova"
  /\ exUnits = << [cells |-> 2, time |-> T230PM, title |-> MovieXTitle],
                  [cells |-> 2, time |-> T1435, title |-> MovieXTitle] >>
  /\ \A i \in Returns : log[i].movie = MovieX /\ log[i].result.runtime = Null

\* the sessions are one session of "Movie X" with the fields of the match
OneMovieXSession(sessions, times) ==
  /\ Len(sessions) = 1
  /\ sessions[1].title = MovieXTitle
  /\ sessions[1].times = times
  /\ sessions[1].rating = Num(150)
  /\ sessions[1].year = <<"2","0","2","4">>
  /\ sessions[1].runtime = Null
  /\ sessions[1].trailerUrl = Null

\* C20: when the venue serves the listings {Movie X, "2:30 PM"} and
\* {Movie X, "14:35"} and the service matches "Movie X" (rating 7.5, year
\* 2024, no runtime, no trailer), the venue result of the day holds exactly one
\* session, "Movie X" with the times 2:30pm and 2:35pm, rating 7.5, year 2024,
\* runtime null and trailerUrl null.
C20_MovieXMergedAndEnriched ==
  MovieXScenario =>
    OneMovieXSession(results[Len(results)].sessions,
      << <<"2",":","3","0","p","m">>, <<"2",":","3","5","p","m">> >>)

\* standardiseTime was applied to the raw time, and to its result
TimeApplied == fnName = "standardiseTime" /\ fnResults # <<>>

TimeAppliedTwice == fnName = "standardiseTime" /\ Len(fnResults) >= 2

\* C21: standardiseTime is idempotent: applied to its own result, for a raw
\* time of any supported format and for a string it passes through, it
\* returns that result.
C21_StandardiseTimeIdempotent ==
  TimeAppliedTwice => fnResults[2] = fnResults[1]

\* a 24-hour time that standardiseTime rewrote went through it twice
C21_RewrittenTimeAppliedTwice ==
  /\ TimeAppliedTwice
  /\ fnArg = <<"1","4",":","0","5">>
  /\ fnResults[1] = <<"2",":","0","5","p","m">>
  /\ fnResults[2] = <<"2",":","0","5","p","m">>

\* the raw time matches one of the patterns standardiseTime accepts
MatchesPattern(t) == Match12(t) \/ Match12NoMins(t) \/ Match24(t)

\* C22: for every raw time that matches one of the accepted patterns (a 1-2
\* digit hour of any value, optional two-digit minutes, optional meridiem),
\* the result of standardiseTime is hour12:MM followed by am or pm, with the
\* hour in 1..12 and not zero-padded and the minutes of two digits.
C22_PatternOutputCanonical ==
  (TimeApplied /\ MatchesPattern(fnArg)) => IsCanonicalTime(fnResults[1])

\* the spellings of an hour, plain and zero-padded
Spellings(h) == { NumToChars(h), padStart2(NumToChars(h)) }

\* the hour and meridiem of the 12-hour clock for an hour of the day
Hour12Of(h) == IF h = 0 THEN 12 ELSE IF h > 12 THEN h - 12 ELSE h

MeridiemOf(h) == IF h >= 12 THEN <<"p","m">> ELSE <<"a","m">>

\* C23: standardiseTime keeps the time of day: a 12-hour raw time keeps its
\* hour, its minutes and its meridiem in lower case, a raw time without
\* minutes gets ":00", a 24-hour raw time of hour 0..23 becomes the same time
\* on the 12-hour clock, and a raw time of no accepted pattern or holding
\* "see website" in any letter case is returned as it is.
C23_TimeOfDayKept ==
  TimeApplied =>
    /\ \A h \in 0..25, m \in MinuteTexts, g \in GapTexts, p \in MeridiemTexts :
         \A z \in Spellings(h) :
           /\ fnArg = z \o <<":">> \o m \o g \o p
                => fnResults[1] = NumToChars(h) \o <<":">> \o m \o toLowerCase(p)
           /\ fnArg = z \o g \o p
                => fnResults[1] = NumToChars(h) \o <<":", "0", "0">> \o toLowerCase(p)
    /\ \A h \in 0..23, m \in MinuteTexts :
         \A z \in Spellings(h) :
           fnArg = z \o <<":">> \o m
             => fnResults[1] = NumToChars(Hour12Of(h)) \o <<":">> \o m \o MeridiemOf(h)
    /\ fnArg \in OtherTimeTexts => fnResults[1] = fnArg

\* "2:30 PM" was standardised to "2:30pm"
C23_HalfPastTwoKept ==
  /\ TimeApplied
  /\ fnArg = <<"2",":","3","0"," ","P","M">>
  /\ fnResults[1] = <<"2",":","3","0","p","m">>

\* the canonicalisation of fetchTMDB was applied to the raw title
TitleApplied == fnName = "cleanTitle" /\ fnResults # <<>>

StartsWithThe(t) == Len(t) >= 4 /\ SubSeq(t, 1, 4) = <<"T","h","e"," ">>

\* no space at either end and no two spaces in a row
NoStrayWhitespace(t) ==
  /\ t = <<>> \/ (~IsSpace(t[1]) /\ ~IsSpace(t[Len(t)]))
  /\ \A i \in 1..(Len(t) - 1) : ~(IsSpace(t[i]) /\ IsSpace(t[i + 1]))

\* the last character is no dash and no colon
NoTrailingPunctuation(t) == t = <<>> \/ t[Len(t)] \notin Dashes \cup {":"}

HousemaidThe == <<"H","o","u","s","e","m","a","i","d",","," ","T","h","e">>

TheHousemaid == <<"T","h","e"," ","H","o","u","s","e","m","a","i","d">>

JawsAnniversary ==
  <<"J","a","w","s"," ","3","D"," ","-"," ","5","0","t","h"," ">>
    \o <<"A","n","n","i","v","e","r","s","a","r","y"," ">>
    \o <<"R","e","s","t","o","r","a","t","i","o","n">>

Jaws == <<"J","a","w","s">>

\* the two titles of the examples get the queries the examples give
TitleExamples ==
  TitleApplied =>
    /\ fnArg = HousemaidThe => fnResults[1] = TheHousemaid
    /\ fnArg = JawsAnniversary => fnResults[1] = Jaws

\* C24: the canonicalisation inside fetchTMDB maps "Housemaid, The" to "The
\* Housemaid" and "Jaws 3D - 50th Anniversary Restoration" to "Jaws"; "The " is
\* put in front exactly when the raw title ends with ", The", and the query
\* has no stray whitespace and no trailing dash or colon once format tags and
\* anniversary qualifiers are removed.
C24_QueryClean ==
  /\ TitleExamples
  /\ TitleApplied =>
    /\ EndsWithThe(fnArg) => StartsWithThe(fnResults[1])
    /\ (~EndsWithThe(fnArg) /\ ~StartsWithThe(fnArg)) => ~StartsWithThe(fnResults[1])
    /\ NoStrayWhitespace(fnResults[1])
    /\ NoTrailingPunctuation(fnResults[1])

NoDash(t) == \A i \in 1..Len(t) : t[i] \notin Dashes

\* t ends with the characters of suffix
EndsWith(t, suffix) ==
  /\ Len(suffix) <= Len(t)
  /\ SubSeq(t, Len(t) - Len(suffix) + 1, Len(t)) = suffix

\* C30: a restoration, remaster or re-release word is removed only as a
\* trailing qualifier introduced by a dash: a title without a dash in which
\* such a word is part of the film's name keeps that word and everything
\* after it in the lookup query.
C30_OwnNameKept ==
  (TitleApplied /\ NoDash(fnArg)) =>
    \A i \in 1..Len(fnArg) :
      RestorationWordAt(fnArg, i)
        => EndsWith(fnResults[1], SubSeq(fnArg, i, Len(fnArg)))

\* the extractor of ACMI has returned
AcmiReturned == exScraper = "scrapeACMI" /\ exResult.cinema # ""

\* an item the extractor of ACMI is to take: of event type 'Film' or of no
\* known type, and of the target date or without start_datetime
AcceptedItem(item, targetDate) ==
  /\ item.json = "object"
  /\ item.eventType \in {"", "Film"}
  /\ item.start_datetime = Null \/ BeforeT(item.start_datetime) = targetDate

\* the titles of the accepted items
AcceptedTitles(items, targetDate) ==
  { items[i].title : i \in { k \in 1..Len(items) :
      AcceptedItem(items[k], targetDate) /\ items[k].title # Null } }

\* the times of the accepted items of a title, in the order of the items
RECURSIVE AcceptedTimes(_, _, _)
AcceptedTimes(items, title, targetDate) ==
  IF Len(items) = 0 THEN <<>>
  ELSE (IF AcceptedItem(items[1], targetDate) /\ items[1].title = title
        THEN <<acmiTime(items[1])>> ELSE <<>>)
         \o AcceptedTimes(Tail(items), title, targetDate)

\* C25: scrapeACMI returns one session for every distinct title among the
\* accepted items and no other session; the times of that session are the
\* times of the accepted items of the title in the order of the API, with
\* duplicates kept, so that an item of another date or of another event type
\* gives no time and no session.
C25_OneSessionPerAcceptedTitle ==
  AcmiReturned =>
    /\ \A title \in AcceptedTitles(exUnits, getMelbourneDateStr(0)) :
         Cardinality({ k \in 1..Len(exResult.sessions) :
                         exResult.sessions[k].title = title }) = 1
    /\ \A k \in 1..Len(exResult.sessions) :
         /\ exResult.sessions[k].title \in AcceptedTitles(exUnits, getMelbourneDateStr(0))
         /\ exResult.sessions[k].times
              = AcceptedTimes(exUnits, exResult.sessions[k].title, getMelbourneDateStr(0))

\* the extractor of the Astor has returned
AstorReturned == exScraper = "scrapeAstor" /\ exResult.cinema # ""

\* the distinct titles of the film links of a block
BlockTitles(block) == astorTitles(block.anchors, 1, [titles |-> <<>>, urls |-> <<>>]).titles

\* the block is among those the extractor reads for today
ReadForToday(block) == astorDayLabel(getMelbourneDateStr(0)) \in block.words

\* at least two titles, none empty, no two equal
DistinctTitles(parts) ==
  /\ Len(parts) >= 2
  /\ \A a \in 1..Len(parts) : parts[a] # <<>>
  /\ \A a, b \in 1..Len(parts) : a # b => parts[a] # parts[b]

\* C26: every session the extractor of the Astor returns with isDoubleFeature
\* true has a title that splits on " + " into at least two titles, none empty
\* and no two equal; a block that says "double feature" and gives fewer than
\* two distinct titles gives an ordinary session, with isDoubleFeature false.
C26_DoubleFeatureHasTwoTitles ==
  AstorReturned =>
    /\ \A k \in 1..Len(exResult.sessions) :
         exResult.sessions[k].isDoubleFeature
           => DistinctTitles(Split(exResult.sessions[k].title, Plus))
    /\ \A i \in 1..Len(exUnits) :
         (/\ ReadForToday(exUnits[i])
          /\ exUnits[i].doubleFeature
          /\ Len(BlockTitles(exUnits[i])) = 1)
         => \E k \in 1..Len(exResult.sessions) :
              /\ exResult.sessions[k].title = BlockTitles(exUnits[i])[1]
              /\ ~exResult.sessions[k].isDoubleFeature

\* a double feature of two films and a block that says "double feature" with
\* one film gave a double-feature session and an ordinary one
C26_DoubleAndOrdinary ==
  /\ AstorReturned
  /\ Len(exUnits) = 2
  /\ exUnits[1].doubleFeature /\ Len(BlockTitles(exUnits[1])) = 2
  /\ exUnits[2].doubleFeature /\ Len(BlockTitles(exUnits[2])) = 1
  /\ Len(exResult.sessions) = 2
  /\ exResult.sessions[1].isDoubleFeature
  /\ exResult.sessions[1].title = Up \o Plus \o Ran
  /\ ~exResult.sessions[2].isDoubleFeature
  /\ exResult.sessions[2].title = Up

\* the title the extractor gives a block: its titles joined when it is a double
\* feature of two films or more, else its first title
BlockTitle(block) ==
  IF block.doubleFeature /\ Len(BlockTitles(block)) >= 2
  THEN JoinPlus(BlockTitles(block)) ELSE BlockTitles(block)[1]

\* the time of the showtime label of a block
LabelTime(block) ==
  IF block.showtime = Null THEN SeeWebsite ELSE trim(toLowerCase(block.showtime))

\* C27: every session the extractor of the Astor returns for the target date
\* comes from a block whose showtime label names the day the target date
\* resolves to (today, tomorrow or the weekday), and its time is the time of
\* that label; a block whose label names another day gives no session and no
\* time.
C27_SessionsOfTheLabelledDay ==
  AstorReturned =>
    \A k \in 1..Len(exResult.sessions) :
      \E i \in 1..Len(exUnits) :
        /\ exUnits[i].labelDay = astorDayLabel(getMelbourneDateStr(0))
        /\ BlockTitles(exUnits[i]) # <<>>
        /\ BlockTitle(exUnits[i]) = exResult.sessions[k].title
        /\ exResult.sessions[k].times = <<LabelTime(exUnits[i])>>

\* the sessions of the feed that was written
FeedSessions ==
  IF feed = <<>> THEN <<>>
  ELSE Flatten([d \in 1..Len(feed[1].days) |->
         Flatten([v \in 1..Len(feed[1].days[d].cinemas) |->
           feed[1].days[d].cinemas[v].sessions])])

\* every entry of the cache stays in the cache as it is
CacheKept ==
  \A key \in DOMAIN tmdbCache :
    key \in DOMAIN tmdbCache' /\ tmdbCache'[key] = tmdbCache[key]

\* two sessions that are no double features and whose titles are equal after
\* lowercasing and trimming carry the same enrichment
SameTitleSameFields ==
  \A a, b \in 1..Len(FeedSessions) :
    (/\ ~Flagged(FeedSessions[a]) /\ ~Flagged(FeedSessions[b])
     /\ cacheKey(FeedSessions[a].title) = cacheKey(FeedSessions[b].title))
    => Carries(FeedSessions[a], FeedSessions[b])

\* C28: an entry of the cache, once written for a key, is never overwritten,
\* removed or changed for the rest of the run; so any two sessions of the
\* feed that are no double features and whose titles are equal after
\* lowercasing and trimming carry the same overview, posterPath, rating, year,
\* runtime and trailerUrl, whatever the service would answer a second time.
C28_CacheEntriesKept == [][CacheKept]_vars /\ []SameTitleSameFields

\* the feed holds two sessions of different raw titles and one cache key, both
\* carrying the fields of a match
C28_TwoSessionsOneKey ==
  \E a, b \in 1..Len(FeedSessions) :
    /\ ~Flagged(FeedSessions[a]) /\ ~Flagged(FeedSessions[b])
    /\ FeedSessions[a].title # FeedSessions[b].title
    /\ cacheKey(FeedSessions[a].title) = cacheKey(FeedSessions[b].title)
    /\ FeedSessions[a].overview # Null
    /\ Cardinality(Searches) = 1

\* the venue result enrichWithTMDB works on or has returned, once the scraper
\* has returned
VenueScraped == exResult.cinema # ""

EnrichedVenue == IF pc = "enrich" THEN data ELSE results[Len(results)]

\* the field is on both objects with one value, or on none
SameField(a, b, field) ==
  /\ field \in DOMAIN a <=> field \in DOMAIN b
  /\ field \in DOMAIN a => a[field] = b[field]

TimeFields == {"times", "premiumTimes"}

EnrichmentFields ==
  {"overview", "posterPath", "rating", "year", "runtime", "trailerUrl", "films"}

\* the session after enrichment has the title, url and isDoubleFeature of the
\* session before it, its times one by one, as they were or standardised, and
\* apart from times nothing but enrichment fields is new or changed
SessionFrame(raw, rich) ==
  /\ SameField(raw, rich, "title")
  /\ SameField(raw, rich, "url")
  /\ SameField(raw, rich, "isDoubleFeature")
  /\ \A f \in TimeFields :
       /\ f \in DOMAIN raw <=> f \in DOMAIN rich
       /\ f \in DOMAIN raw =>
            /\ Len(rich[f]) = Len(raw[f])
            /\ \A i \in 1..Len(raw[f]) :
                 rich[f][i] \in {raw[f][i], standardiseTime(raw[f][i])}
  /\ DOMAIN raw \subseteq DOMAIN rich
  /\ DOMAIN rich \subseteq DOMAIN raw \cup EnrichmentFields
  /\ \A f \in DOMAIN raw \ (TimeFields \cup EnrichmentFields) : rich[f] = raw[f]

\* C29: enrichWithTMDB leaves the title, url and isDoubleFeature of every
\* session as they are, keeps the number and order of the venue's sessions
\* and the length and order of each session's times, and leaves the cinema,
\* url and note of the venue result as they are: it rewrites times one by one
\* and adds enrichment fields, nothing else.
C29_EnrichmentFrame ==
  VenueScraped =>
    /\ SameField(exResult, EnrichedVenue, "cinema")
    /\ SameField(exResult, EnrichedVenue, "url")
    /\ SameField(exResult, EnrichedVenue, "note")
    /\ Len(EnrichedVenue.sessions) = Len(exResult.sessions)
    /\ \A k \in 1..Len(exResult.sessions) :
         SessionFrame(exResult.sessions[k], EnrichedVenue.sessions[k])

\* Brunswick's film with two times went through enrichment: its times were
\* rewritten in place and it carries the fields of a match
C29_TwoTimesRewritten ==
  /\ VenuePushed
  /\ exScraper = "scrapeBrunswickPictureHouse"
  /\ Len(exResult.sessions) = 1
  /\ exResult.sessions[1].times
       = << <<"2",":","0","0"," ","P","M">>, <<"1","1",":","1","5"," ","a","m">> >>
  /\ EnrichedVenue.sessions[1].times
       = << <<"2",":","0","0","p","m">>, <<"1","1",":","1","5","a","m">> >>
  /\ EnrichedVenue.sessions[1].overview # Null

\* the result of Hoyts went through enrichment with its note
HoytsNoteKept ==
  /\ VenuePushed
  /\ exScraper = "scrapeHoyts"
  /\ EnrichedVenue.note = "Lux sessions not listed"

====
